---- MODULE Spec2Model ----
(***************************************************************************)
(* Model of the quota / session layer of documind:                         *)
(*   app/models/projects.py   (ProjectDB, SessionDB)                       *)
(*   app/models/api_keys.py   (APIKeyDB)                                   *)
(*   app/routers/public_api.py (create_session, send_message)              *)
(*   app/rag_service.py       (RAGService.create_for_assistant)            *)
(*                                                                         *)
(* Time is counted in minutes: the minute window of a time t is t itself,  *)
(* the day window is t \div MinutesPerDay.  The SQL functions the Python   *)
(* code calls (check_project_rate_limit, record_session_usage,             *)
(* cleanup_expired_sessions, generate_session_token,                       *)
(* get_api_key_rate_limit_status, record_api_usage) are not part of the    *)
(* Python sources; they are modelled from the written specification        *)
(* (fixed windows keyed by the window start, one counter per window).      *)
(***************************************************************************)
EXTENDS Integers, Sequences, FiniteSets, TLC

\* ------------------------------------------------------------------ bounds
MaxTime == 3
MinutesPerDay == 2
MaxTokens == 2
MaxLimit == 2
MaxDuration == 2
MaxCount == 3
MaxRequests == 2
NumWorkers == 2
MaxLiveSessions == 1
MaxLifecycleRecords == 1

Tokens == 1..MaxTokens
Req == 1..NumWorkers
AssistantNames == {"A", "B"}
\* AssistantDB.get_all_assistants(): the active assistants that exist
ActiveAssistants == {"A"}
LimitVals == 1..MaxLimit
DurationVals == 1..MaxDuration

\* An Optional[...] argument: {} is None, {v} is the value v
Opt(S) == {{}} \cup {{v} : v \in S}
OptGet(arg, old) == IF arg = {} THEN old ELSE CHOOSE v \in arg : TRUE

VARIABLES
    now,        \* the clock (NOW() of the database, datetime.utcnow()), in minutes
    project,    \* the row of table projects for the one project id
    sessions,   \* table public_sessions, by session token
    issued,     \* how many session tokens generate_session_token() has returned
    usage,      \* the usage counters of each session
    apikey,     \* the row of table api_keys for the one key
    keyUsage,   \* the usage counters of the key
    req,        \* the send_message requests in flight, one per worker
    started,    \* how many send_message requests have been started
    admitted,   \* per token: the minute window and number of requests that passed the quota check in it
    hist,       \* the outcomes of the finished send_message requests, in order
    lastCheck,  \* the result of the latest check_rate_limit call, if nothing else happened since
    focus,      \* what a behaviour exercises: "sessions", "key" or "scenario"
    allowed_domains,      \* the project's allowed_domains list
    createResp,           \* the create_session request being served, and its response
    document_embeddings,  \* table document_embeddings
    vsResp,               \* the VectorStore calls made so far, with outcomes
    ragResp,              \* the RAGService.query calls made so far, with outcomes
    msgResp,              \* the sanitize_message calls made so far, with results
    mwResp,               \* the requests APIKeyAuthMiddleware.dispatch has served
    failed_login_attempts,  \* auth.failed_login_attempts, by username
    authResp,             \* per username: what the authenticate_user calls so far came to
    admin_codes,          \* the row of table admin_codes for the one admin code
    users,                \* how many rows of table users carry the admin code's id
    regReq                \* the register requests in flight, one per worker

\* the session and quota tables with the requests on them
coreVars == <<now, project, sessions, issued, usage, apikey, keyUsage, req,
              started, admitted, hist, lastCheck, focus>>

\* what the quota operations never touch
extVars == <<allowed_domains, createResp, document_embeddings, vsResp>>

\* the retrieval service, the sanitizer, the API-key middleware, the login
\* tracker and the registration tables
auxVars == <<ragResp, msgResp, mwResp, failed_login_attempts, authResp,
             admin_codes, users, regReq>>

vars == <<now, project, sessions, issued, usage, apikey, keyUsage, req,
          started, admitted, hist, lastCheck, focus, allowed_domains,
          createResp, document_embeddings, vsResp, ragResp, msgResp, mwResp,
          failed_login_attempts, authResp, admin_codes, users, regReq>>

MinuteWindow(t) == t
DayWindow(t) == t \div MinutesPerDay

NoSessionRow == [present |-> FALSE, expires_at |-> 0]
ZeroUsage == [minute_start |-> 0, minute_count |-> 0,
              day_start |-> 0, day_count |-> 0, session_count |-> 0]
ZeroKeyUsage == [minute_start |-> 0, minute_count |-> 0,
                 day_start |-> 0, day_count |-> 0]
NoCheck == [kind |-> "none", id |-> 0,
            current_minute_requests |-> 0, current_day_requests |-> 0,
            current_session_requests |-> 0, is_rate_limited |-> FALSE]

\* ------------------------------------------------- ProjectDB / SessionDB

\* ProjectDB.get_project_by_id: the project row, only while it is active
GetProjectById == [found |-> project.exists /\ project.is_active, row |-> project]

NoSession == [found |-> FALSE, id |-> 0, expires_at |-> 0,
              allowed_assistants |-> {},
              requests_per_minute |-> 0, requests_per_day |-> 0,
              requests_per_session |-> 0]

\* the WHERE clause with the test of the project dropped
SessionRowValidAnyProject(tok) ==
    /\ sessions[tok].present
    /\ sessions[tok].expires_at > now

\* the WHERE clause with the expiry test dropped
SessionRowValidNoExpiry(tok) ==
    /\ sessions[tok].present
    /\ project.exists
    /\ project.is_active = TRUE

\* the WHERE clause of the JOIN: s.expires_at > NOW() AND p.is_active = true
SessionRowValid(tok) ==
    /\ sessions[tok].present
    /\ project.exists
    /\ sessions[tok].expires_at > now
    /\ project.is_active = TRUE

\* SessionDB.get_session_by_token
GetSessionByToken(tok) ==
    IF SessionRowValid(tok)
    THEN [found |-> TRUE, id |-> tok, expires_at |-> sessions[tok].expires_at,
          allowed_assistants |-> project.allowed_assistants,
          requests_per_minute |-> project.requests_per_minute,
          requests_per_day |-> project.requests_per_day,
          requests_per_session |-> project.requests_per_session]
    ELSE NoSession

\* SQL check_project_rate_limit(project_id, session_id): one row
\* <<minute count, day count, session count, minute limit, day limit,
\*   session limit, is_rate_limited>>, the counts as of now
CheckProjectRateLimit(sid) ==
    LET u == usage[sid]
        m == IF u.minute_start = MinuteWindow(now) THEN u.minute_count ELSE 0
        d == IF u.day_start = DayWindow(now) THEN u.day_count ELSE 0
        s == u.session_count
    IN <<m, d, s, project.requests_per_minute, project.requests_per_day,
         project.requests_per_session,
         \/ m >= project.requests_per_minute
         \/ d >= project.requests_per_day
         \/ s >= project.requests_per_session>>

RateLimited0 == [current_minute_requests |-> 0, current_day_requests |-> 0,
                 current_session_requests |-> 0, minute_limit |-> 0,
                 day_limit |-> 0, session_limit |-> 0, is_rate_limited |-> TRUE]

\* the row with the session column read as the minute count
RateStatusSessionAsMinute(row) ==
    [current_minute_requests |-> row[3], current_day_requests |-> row[2],
     current_session_requests |-> row[3], minute_limit |-> row[4],
     day_limit |-> row[5], session_limit |-> row[6], is_rate_limited |-> row[7]]

\* the row with the minute and day columns read in the wrong order
RateStatusSwapped(row) ==
    [current_minute_requests |-> row[2], current_day_requests |-> row[1],
     current_session_requests |-> row[3], minute_limit |-> row[4],
     day_limit |-> row[5], session_limit |-> row[6], is_rate_limited |-> row[7]]

\* SessionDB.check_rate_limit: the dict built from the row
RateStatus(row) ==
    [current_minute_requests |-> row[1], current_day_requests |-> row[2],
     current_session_requests |-> row[3], minute_limit |-> row[4],
     day_limit |-> row[5], session_limit |-> row[6], is_rate_limited |-> row[7]]

\* check_rate_limit without the session lookup that fails closed
CheckRateLimitNoLookup(tok) == RateStatus(CheckProjectRateLimit(tok))

\* SessionDB.check_rate_limit
CheckRateLimit(tok) ==
    LET session == GetSessionByToken(tok)
    IN IF ~session.found THEN RateLimited0
       ELSE RateStatus(CheckProjectRateLimit(session.id))

\* SQL record_session_usage(session_id, ...): one more request in each window
RecordSessionUsage(sid) ==
    LET u == usage[sid]
        m == IF u.minute_start = MinuteWindow(now) THEN u.minute_count ELSE 0
        d == IF u.day_start = DayWindow(now) THEN u.day_count ELSE 0
    IN [usage EXCEPT ![sid] =
          [minute_start |-> MinuteWindow(now), minute_count |-> m + 1,
           day_start |-> DayWindow(now), day_count |-> d + 1,
           session_count |-> u.session_count + 1]]

\* SessionDB.record_usage: [ok, usage'] ; nothing is written for a token
\* that get_session_by_token does not return
RecordUsage(tok) ==
    LET session == GetSessionByToken(tok)
    IN IF ~session.found THEN [ok |-> FALSE, usage |-> usage]
       ELSE [ok |-> TRUE, usage |-> RecordSessionUsage(session.id)]

\* SessionDB.check_rate_limit runs a SELECT and closes the connection
\* without a commit: the counters after the call are the counters before it
CheckRateLimitWritesCounting(tok) == RecordUsage(tok).usage

CheckRateLimitWrites(tok) == usage

\* SQL generate_session_token(): a token never returned before
GenerateSessionToken == issued + 1

\* SessionDB.create_session inserting without looking at the project
CreateSessionRowAnyProject(token) ==
    [sessions EXCEPT ![token] =
        [present |-> TRUE,
         expires_at |-> now + project.session_duration_minutes]]

\* SessionDB.create_session: the table after the INSERT (unchanged when the
\* project is missing or inactive); expires_at = utcnow() + session duration
CreateSessionRow(token) ==
    LET p == GetProjectById
    IN IF ~p.found THEN sessions
       ELSE [sessions EXCEPT ![token] =
               [present |-> TRUE,
                expires_at |-> now + p.row.session_duration_minutes]]

\* SQL cleanup_expired_sessions(): the expired rows are deleted
CleanupRows ==
    [t \in Tokens |->
        IF sessions[t].present /\ sessions[t].expires_at <= now
        THEN NoSessionRow ELSE sessions[t]]

\* ProjectDB.update_project: every argument that is not None is written
UpdateProjectRow(is_active, allowed_assistants, requests_per_minute, requests_per_day, requests_per_session, session_duration_minutes) ==
    [project EXCEPT
        !.is_active = OptGet(is_active, @),
        !.allowed_assistants = OptGet(allowed_assistants, @),
        !.requests_per_minute = OptGet(requests_per_minute, @),
        !.requests_per_day = OptGet(requests_per_day, @),
        !.requests_per_session = OptGet(requests_per_session, @),
        !.session_duration_minutes = OptGet(session_duration_minutes, @)]

\* ------------------------------------------------------------- APIKeyDB

\* SQL get_api_key_rate_limit_status(key_hash): <<found, minute count,
\* day count, minute limit, day limit, is_rate_limited>>; no row for a key
\* that is missing or inactive
GetApiKeyRateLimitStatus ==
    LET u == keyUsage
        m == IF u.minute_start = MinuteWindow(now) THEN u.minute_count ELSE 0
        d == IF u.day_start = DayWindow(now) THEN u.day_count ELSE 0
    IN <<apikey.exists /\ apikey.is_active, m, d,
         apikey.rate_limit_per_minute, apikey.rate_limit_per_day,
         \/ m >= apikey.rate_limit_per_minute
         \/ d >= apikey.rate_limit_per_day>>

KeyRateLimited0 == [current_minute_requests |-> 0, current_day_requests |-> 0,
                    minute_limit |-> 0, day_limit |-> 0, is_rate_limited |-> TRUE]

\* APIKeyDB.check_rate_limit
KeyCheckRateLimit ==
    LET row == GetApiKeyRateLimitStatus
    IN IF ~row[1] THEN KeyRateLimited0
       ELSE [current_minute_requests |-> row[2], current_day_requests |-> row[3],
             minute_limit |-> row[4], day_limit |-> row[5],
             is_rate_limited |-> row[6]]

\* APIKeyDB.check_rate_limit runs a SELECT and closes the connection
\* without a commit
KeyCheckRateLimitWrites == keyUsage

\* SQL record_api_usage(key_hash, ...): one more request in each window of
\* an existing key
RecordApiUsage ==
    LET u == keyUsage
        m == IF u.minute_start = MinuteWindow(now) THEN u.minute_count ELSE 0
        d == IF u.day_start = DayWindow(now) THEN u.day_count ELSE 0
    IN IF ~apikey.exists THEN keyUsage
       ELSE [minute_start |-> MinuteWindow(now), minute_count |-> m + 1,
             day_start |-> DayWindow(now), day_count |-> d + 1]

\* APIKeyDB.update_api_key: every argument that is not None is written
UpdateApiKeyRow(is_active, rate_limit_per_minute, rate_limit_per_day) ==
    [apikey EXCEPT
        !.is_active = OptGet(is_active, @),
        !.rate_limit_per_minute = OptGet(rate_limit_per_minute, @),
        !.rate_limit_per_day = OptGet(rate_limit_per_day, @)]

\* --------------------------------------------------------------- Init

\* public_api.py line 297: the longest sanitized message that is accepted
MaxSanitizedLen == 8000

\* MessageRequest.message after sanitize_message: its length, and whether
\* only whitespace is left of it
Messages ==
    {[text |-> "hello", sanitized_len |-> 5, blank |-> FALSE],
     [text |-> "&&&...", sanitized_len |-> 8001, blank |-> FALSE],
     [text |-> "   ", sanitized_len |-> 0, blank |-> TRUE]}

IdleRequest == [pc |-> "idle", token |-> 1, assistant |-> "A", allowed |-> {},
                stage |-> 0, status |-> 0, recorded |-> 0, logged |-> 0,
                searched |-> FALSE, generated |-> FALSE, detail |-> RateLimited0]

NoAdmission == [window |-> 0, n |-> 0]

\* auth.py line 25: a username the tracker has no entry for
Usernames == {"alice", "bob"}
NoEntry == [present |-> FALSE, attempts |-> 0, locked |-> FALSE, locked_until |-> 0]

\* no authenticate_user call made yet for a username. last, password_ok and
\* checked describe the latest call; fails, lock_was and lock_from count the
\* failed calls since the last success or expired lockout and remember when
\* the fifth of them happened; during_lock and after_expiry tell whether
\* the latest call fell into, or was the first after, that lockout period
NoAuth == [last |-> "none", password_ok |-> FALSE, checked |-> FALSE, during_lock |-> FALSE, after_expiry |-> FALSE, fails |-> 0, lock_was |-> FALSE, lock_from |-> 0]

\* no register request in flight; overlapped remembers that a request of the
\* worker passed its check while another request was between check and insert
NoRegister == [pc |-> "idle", via |-> "none", status |-> 0, overlapped |-> FALSE]

\* nothing asked of the retrieval service, the sanitizer, the middleware,
\* the login or the registration yet; the admin code admits MaxUsers users
MaxUsers == 1
InitAux ==
    /\ ragResp = <<>>
    /\ msgResp = <<>>
    /\ mwResp = <<>>
    /\ failed_login_attempts = [u \in Usernames |-> NoEntry]
    /\ authResp = [u \in Usernames |-> NoAuth]
    /\ admin_codes = [is_active |-> TRUE, max_users |-> MaxUsers, current_users |-> 0]
    /\ users = 0
    /\ regReq = [w \in Req |-> NoRegister]

InitCore(rpmS, rpdS, rpsS, durS, aaS, focusS) ==
    /\ InitAux
    /\ now = 0
    /\ \E rpm \in rpmS, rpd \in rpdS, rps \in rpsS, dur \in durS, aa \in aaS :
          project = [exists |-> TRUE, is_active |-> TRUE,
                     allowed_assistants |-> aa,
                     requests_per_minute |-> rpm,
                     requests_per_day |-> rpd,
                     requests_per_session |-> rps,
                     session_duration_minutes |-> dur]
    /\ sessions = [t \in Tokens |-> NoSessionRow]
    /\ issued = 0
    /\ usage = [t \in Tokens |-> ZeroUsage]
    /\ apikey = [exists |-> TRUE, is_active |-> TRUE,
                 rate_limit_per_minute |-> MaxLimit,
                 rate_limit_per_day |-> MaxLimit + 1]
    /\ keyUsage = ZeroKeyUsage
    /\ req = [r \in Req |-> IdleRequest]
    /\ started = 0
    /\ admitted = [t \in Tokens |-> NoAdmission]
    /\ hist = <<>>
    /\ lastCheck = NoCheck
    /\ focus \in focusS

\* no create_session request served yet; no Origin header
NoOrigin == [given |-> FALSE, scheme |-> FALSE, labels |-> <<>>, port |-> FALSE]
NoCreate == [pc |-> "idle", origin |-> NoOrigin, status |-> 0, token |-> 0]

\* no VectorStore call made yet
NoVsResp == <<>>

InitWith(rpmS, rpdS, rpsS, durS, aaS, focusS) ==
    /\ InitCore(rpmS, rpdS, rpsS, durS, aaS, focusS)
    /\ allowed_domains = <<>>
    /\ createResp = NoCreate
    /\ document_embeddings = {}
    /\ vsResp = NoVsResp

\* ------------------------------------------------- environment, admin API

\* the clock advances by one minute
Tick ==
    /\ now < MaxTime
    /\ now' = now + 1
    /\ lastCheck' = NoCheck
    /\ UNCHANGED <<auxVars, extVars, project, sessions, issued, usage, apikey, keyUsage, req,
                   started, admitted, hist, focus>>

\* POST /api/public/sessions/create for an existing, active project
CreateSession(cap) ==
    /\ focus # "key"
    /\ GetProjectById.found
    /\ issued < cap
    /\ sessions' = CreateSessionRow(GenerateSessionToken)
    /\ issued' = issued + 1
    /\ lastCheck' = NoCheck
    /\ UNCHANGED <<auxVars, extVars, now, project, usage, apikey, keyUsage, req, started,
                   admitted, hist, focus>>

\* PUT /projects/{project_id}: the project must exist (active or not)
UpdateProject(is_active, allowed_assistants, requests_per_minute, requests_per_day, requests_per_session, session_duration_minutes) ==
    /\ focus = "sessions"
    /\ project.exists
    /\ project' = UpdateProjectRow(is_active, allowed_assistants,
                                   requests_per_minute, requests_per_day,
                                   requests_per_session, session_duration_minutes)
    /\ project' # project
    /\ lastCheck' = NoCheck
    /\ UNCHANGED <<auxVars, extVars, now, sessions, issued, usage, apikey, keyUsage, req,
                   started, admitted, hist, focus>>

\* DELETE /projects/{project_id}
DeleteProject ==
    /\ focus = "sessions"
    /\ project.exists
    /\ project' = [project EXCEPT !.exists = FALSE]
    /\ lastCheck' = NoCheck
    /\ UNCHANGED <<auxVars, extVars, now, sessions, issued, usage, apikey, keyUsage, req,
                   started, admitted, hist, focus>>

\* SessionDB.cleanup_expired_sessions
CleanupExpiredSessions ==
    /\ focus = "sessions"
    /\ sessions' = CleanupRows
    /\ sessions' # sessions
    /\ lastCheck' = NoCheck
    /\ UNCHANGED <<auxVars, extVars, now, project, issued, usage, apikey, keyUsage, req,
                   started, admitted, hist, focus>>

\* PUT /api-keys/{key_id}
UpdateApiKey(is_active, rate_limit_per_minute, rate_limit_per_day) ==
    /\ focus = "key"
    /\ apikey.exists
    /\ apikey' = UpdateApiKeyRow(is_active, rate_limit_per_minute, rate_limit_per_day)
    /\ apikey' # apikey
    /\ lastCheck' = NoCheck
    /\ UNCHANGED <<auxVars, extVars, now, project, sessions, issued, usage, keyUsage, req,
                   started, admitted, hist, focus>>

\* ------------------------------------------- the ledger's own operations

\* the number of record_usage calls that have been counted, over all sessions
RECURSIVE SumSessionCount(_)
SumSessionCount(n) ==
    IF n = 0 THEN 0 ELSE usage[n].session_count + SumSessionCount(n - 1)

TotalRecorded == SumSessionCount(MaxTokens)

\* one call of SessionDB.record_usage
RecordUsageOp(tok, cap) ==
    /\ focus = "sessions"
    /\ TotalRecorded < cap
    /\ usage' = RecordUsage(tok).usage
    /\ usage' # usage
    /\ lastCheck' = NoCheck
    /\ UNCHANGED <<auxVars, extVars, now, project, sessions, issued, apikey, keyUsage, req,
                   started, admitted, hist, focus>>

\* one call of SessionDB.check_rate_limit
CheckRateLimitOp(tok) ==
    LET st == CheckRateLimit(tok)
    IN /\ focus = "sessions"
       /\ usage' = CheckRateLimitWrites(tok)
       /\ lastCheck' = [kind |-> "session", id |-> tok,
                        current_minute_requests |-> st.current_minute_requests,
                        current_day_requests |-> st.current_day_requests,
                        current_session_requests |-> st.current_session_requests,
                        is_rate_limited |-> st.is_rate_limited]
       /\ UNCHANGED <<auxVars, extVars, now, project, sessions, issued, apikey, keyUsage, req,
                      started, admitted, hist, focus>>

\* one call of APIKeyDB.record_usage
KeyRecordUsageOp ==
    /\ focus = "key"
    /\ keyUsage.day_count < MaxCount
    /\ keyUsage' = RecordApiUsage
    /\ lastCheck' = NoCheck
    /\ UNCHANGED <<auxVars, extVars, now, project, sessions, issued, usage, apikey, req,
                   started, admitted, hist, focus>>

\* one call of APIKeyDB.check_rate_limit
KeyCheckRateLimitOp ==
    LET st == KeyCheckRateLimit
    IN /\ focus = "key"
       /\ keyUsage' = KeyCheckRateLimitWrites
       /\ lastCheck' = [kind |-> "key", id |-> 0,
                        current_minute_requests |-> st.current_minute_requests,
                        current_day_requests |-> st.current_day_requests,
                        current_session_requests |-> 0,
                        is_rate_limited |-> st.is_rate_limited]
       /\ UNCHANGED <<auxVars, extVars, now, project, sessions, issued, usage, apikey, req,
                      started, admitted, hist, focus>>

\* sessions and the API key share no state but the clock: a behaviour of the
\* ledger exercises the sessions or the key
InitLedger ==
    InitWith(LimitVals, {MaxLimit, MaxLimit + 1}, {MaxLimit, MaxLimit + 1},
             {MaxDuration}, {{}}, {"sessions", "key"})

\* check and record, for sessions and for the API key
LedgerNext ==
    \/ Tick
    \/ CreateSession(MaxLiveSessions)
    \/ \E tok \in Tokens : RecordUsageOp(tok, MaxCount)
    \/ \E tok \in Tokens : CheckRateLimitOp(tok)
    \/ \E rlm \in LimitVals : UpdateApiKey({}, {rlm}, {})
    \/ \E rld \in LimitVals : UpdateApiKey({}, {}, {rld})
    \/ KeyRecordUsageOp
    \/ KeyCheckRateLimitOp

SpecLedger == InitLedger /\ [][LedgerNext]_vars

InitLifecycle ==
    InitWith(LimitVals, {MaxLimit + 1}, {MaxLimit + 1}, {1, MaxDuration}, {{}},
             {"sessions", "key"})

\* the life of a session, of its project and of an API key
LifecycleNext ==
    \/ Tick
    \/ CreateSession(MaxTokens)
    \/ \E ia \in BOOLEAN : UpdateProject({ia}, {}, {}, {}, {}, {})
    \/ \E rpm \in LimitVals : UpdateProject({}, {}, {rpm}, {}, {}, {})
    \/ \E dur \in DurationVals : UpdateProject({}, {}, {}, {}, {}, {dur})
    \/ DeleteProject
    \/ CleanupExpiredSessions
    \/ \E tok \in Tokens : RecordUsageOp(tok, MaxLifecycleRecords)
    \/ \E ia \in BOOLEAN : UpdateApiKey({ia}, {}, {})
    \/ \E rlm \in LimitVals : UpdateApiKey({}, {rlm}, {})
    \/ KeyRecordUsageOp

SpecLifecycle == InitLifecycle /\ [][LifecycleNext]_vars

\* the session registry used directly: ProjectDB.create_project takes any
\* session_duration_minutes, 0 included (the admin router asks for >= 5)
InitRegistry ==
    InitWith({MaxLimit}, {MaxLimit + 1}, {MaxLimit + 1}, 0..MaxDuration, {{}},
             {"sessions"})

RegistryNext ==
    \/ Tick
    \/ CreateSession(MaxTokens)
    \/ \E ia \in BOOLEAN : UpdateProject({ia}, {}, {}, {}, {}, {})
    \/ CleanupExpiredSessions

SpecRegistry == InitRegistry /\ [][RegistryNext]_vars

\* ------------------------------------ POST /api/public/sessions/create

\* A host name is the sequence of its labels; a netloc is a host name with
\* or without ":port"; an origin is an Origin header: missing, or a netloc
\* with or without "scheme://" in front.  An allowed_domains entry is a host
\* name with or without "*." in front.
HostNames ==
    {<<"app", "example", "com">>, <<"example", "com">>, <<"example", "org">>,
     <<"app", "Example", "com">>}

Origins ==
    {NoOrigin}
      \cup {[given |-> TRUE, scheme |-> TRUE, labels |-> h, port |-> p] :
               h \in HostNames, p \in BOOLEAN}
      \cup {[given |-> TRUE, scheme |-> FALSE,
             labels |-> <<"app", "example", "com">>, port |-> FALSE]}

DomainEntries ==
    {[wild |-> TRUE, labels |-> <<"example", "com">>],
     [wild |-> FALSE, labels |-> <<"example", "com">>],
     [wild |-> FALSE, labels |-> <<"Example", "com">>],
     [wild |-> FALSE, labels |-> <<"app", "example", "com">>]}

AllowedDomainLists ==
    {<<>>} \cup {<<e>> : e \in DomainEntries}
           \cup {<<[wild |-> TRUE, labels |-> <<"example", "com">>],
                   [wild |-> FALSE, labels |-> <<"example", "org">>]>>}

\* str.lower() on a label, on a host name
Lower(l) == IF l = "Example" THEN "example" ELSE l
LowerSeq(h) == [i \in 1..Len(h) |-> Lower(h[i])]

\* urlparse(origin).netloc: what stands between "//" and the path; empty
\* when the origin carries no "scheme://"
UrlParseNetloc(origin) ==
    IF origin.scheme THEN [labels |-> origin.labels, port |-> origin.port]
    ELSE [labels |-> <<>>, port |-> FALSE]

\* domain.endswith('.' + pattern)
EndsWithDot(domain, pattern) ==
    /\ ~domain.port
    /\ Len(domain.labels) > Len(pattern)
    /\ SubSeq(domain.labels, Len(domain.labels) - Len(pattern) + 1,
              Len(domain.labels)) = pattern

\* domain == pattern
DomainEquals(domain, pattern) == ~domain.port /\ domain.labels = pattern

\* validate_domain
ValidateDomain(allowed, origin) ==
    IF allowed = <<>> THEN TRUE
    ELSE IF ~origin.given THEN FALSE
    ELSE LET netloc == UrlParseNetloc(origin)
             domain == [netloc EXCEPT !.labels = LowerSeq(@)]
         IN \E i \in 1..Len(allowed) :
               IF allowed[i].wild
               THEN \/ EndsWithDot(domain, allowed[i].labels)
                    \/ DomainEquals(domain, allowed[i].labels)
               ELSE DomainEquals(domain, LowerSeq(allowed[i].labels))

\* create_session, lines 123-140: the project lookup (404) and the domain
\* check (403)
CreateSessionStart(origin) ==
    /\ createResp.pc \in {"idle", "done"}
    /\ issued < MaxTokens
    /\ createResp' =
          IF ~GetProjectById.found
          THEN [pc |-> "done", origin |-> origin, status |-> 404, token |-> 0]
          ELSE IF ~ValidateDomain(allowed_domains, origin)
          THEN [pc |-> "done", origin |-> origin, status |-> 403, token |-> 0]
          ELSE [pc |-> "insert", origin |-> origin, status |-> 0, token |-> 0]
    /\ UNCHANGED <<auxVars, coreVars, allowed_domains, document_embeddings, vsResp>>

\* create_session, lines 141-174: SessionDB.create_session, which returns
\* None for a project that is gone or inactive by now (500)
CreateSessionInsert ==
    /\ createResp.pc = "insert"
    /\ sessions' = CreateSessionRow(GenerateSessionToken)
    /\ IF GetProjectById.found
       THEN /\ issued' = issued + 1
            /\ createResp' = [createResp EXCEPT !.pc = "done", !.status = 200,
                                                !.token = GenerateSessionToken]
       ELSE /\ issued' = issued
            /\ createResp' = [createResp EXCEPT !.pc = "done", !.status = 500]
    /\ lastCheck' = NoCheck
    /\ UNCHANGED <<now, project, usage, apikey, keyUsage, req, started,
                   admitted, hist, focus, allowed_domains,
                   document_embeddings, vsResp>>
    /\ UNCHANGED auxVars

InitCreate ==
    /\ InitCore({MaxLimit}, {MaxLimit + 1}, {MaxLimit + 1}, {MaxDuration},
                {{}}, {"sessions"})
    /\ allowed_domains \in AllowedDomainLists
    /\ createResp = NoCreate
    /\ document_embeddings = {}
    /\ vsResp = NoVsResp

\* clients ask for sessions from their origins while the project is switched
\* off and on or deleted
CreateNext ==
    \/ \E origin \in Origins : CreateSessionStart(origin)
    \/ CreateSessionInsert
    \/ \E ia \in BOOLEAN : UpdateProject({ia}, {}, {}, {}, {}, {})
    \/ DeleteProject

SpecCreate == InitCreate /\ [][CreateNext]_vars

\* --------------------------------------------------- app/vector_store.py

\* Python's None, SQL's NULL
NoneId == "None"

\* VectorStore(project_id=None, assistant_id=None): the stores in use. Two
\* assistants of project P1, assistant A1 again without a project id, and a
\* store constructed without an assistant id
StoreA1 == [project_id |-> "P1", assistant_id |-> "A1"]
StoreA2 == [project_id |-> "P1", assistant_id |-> "A2"]
StoreA1NoProject == [project_id |-> NoneId, assistant_id |-> "A1"]
StoreNoAssistant == [project_id |-> "P1", assistant_id |-> NoneId]
ScopedStores == {StoreA1, StoreA2, StoreA1NoProject}
Stores == ScopedStores \cup {StoreNoAssistant}

\* chunk contents: "x" and "xx" share their first 100 characters, "y" does not
Contents == {"x", "xx", "y"}
First100(content) == IF content = "xx" THEN "x" ELSE content

\* generate_document_id: md5 of f"{source or 'unknown'}:{content[:100]}"
Md5(text) == IF text = <<"unknown", "x">> THEN "md5(unknown:x)" ELSE IF text = <<"unknown", "y">> THEN "md5(unknown:y)" ELSE "md5(other)"
GenerateDocumentId(content, source) == Md5(<<IF source = NoneId THEN "unknown" ELSE source, First100(content)>>)

\* dict.get(key, default) on a document dictionary
DocGet(doc, key, default) == IF key \in DOMAIN doc THEN doc[key] ELSE default

\* the batches handed to add_documents: document id given and chunk indexes
\* defaulted; both defaulted; both given; both given with one key twice;
\* the empty batch
BatchGivenId == <<[content |-> "x", document_id |-> "d1"], [content |-> "y", document_id |-> "d1"]>>
BatchDefaulted == <<[content |-> "x"], [content |-> "xx"]>>
BatchGivenKey == <<[content |-> "y", document_id |-> "d1", chunk_index |-> 0]>>
BatchSameKey == <<[content |-> "x", document_id |-> "d1", chunk_index |-> 1], [content |-> "xx", document_id |-> "d1", chunk_index |-> 1]>>
Batches == {BatchGivenId, BatchDefaulted, BatchGivenKey, BatchSameKey, <<>>}
DocumentIds == {"d1", GenerateDocumentId("x", NoneId)}

\* add_documents, lines 63-84: the rows of the batch; chunk_index defaults to
\* the position in the batch, metadata to {}
InsertData(store, documents) == [i \in 1..Len(documents) |-> [project_id |-> store.project_id, assistant_id |-> store.assistant_id, document_id |-> DocGet(documents[i], "document_id", GenerateDocumentId(documents[i].content, NoneId)), chunk_index |-> DocGet(documents[i], "chunk_index", i - 1), content |-> documents[i].content, metadata |-> "{}"]]

\* the unique key of table document_embeddings
RowKey(r) == <<r.assistant_id, r.document_id, r.chunk_index>>

\* column id of document_embeddings: a serial
NextId(table) == IF table = {} THEN 1 ELSE 1 + (CHOOSE n \in {r.id : r \in table} : \A r \in table : r.id <= n)
NewRow(table, row) == [id |-> NextId(table), project_id |-> row.project_id, assistant_id |-> row.assistant_id, document_id |-> row.document_id, chunk_index |-> row.chunk_index, content |-> row.content, metadata |-> row.metadata]

\* INSERT ... ON CONFLICT (assistant_id, document_id, chunk_index) DO UPDATE
\* SET content, metadata, embedding: the conflicting row keeps its id and its
\* project_id
InsertOnConflictKeepBoth(table, row) == table \cup {NewRow(table, row)}
InsertOnConflict(table, row) == IF \E r \in table : RowKey(r) = RowKey(row) THEN {IF RowKey(r) = RowKey(row) THEN [r EXCEPT !.content = row.content, !.metadata = row.metadata] ELSE r : r \in table} ELSE table \cup {NewRow(table, row)}

\* cursor.executemany: the statement once per row, in order; n rows done
RECURSIVE ExecuteMany(_, _, _)
ExecuteMany(table, rows, n) == IF n = 0 THEN table ELSE InsertOnConflict(ExecuteMany(table, rows, n - 1), rows[n])

\* what can go wrong in one add_documents call: nothing, generate_embeddings
\* raising, or the database raising on row number failAt of the batch
Faults(documents) == {[kind |-> "none", failAt |-> 0], [kind |-> "embedding", failAt |-> 0]} \cup {[kind |-> "backend", failAt |-> j] : j \in 1..Len(documents)}

\* add_documents succeeds: empty batch (early return), or no fault and an
\* assistant id
AddDocumentsOk(store, documents, fault) == documents = <<>> \/ (fault.kind = "none" /\ store.assistant_id # NoneId)

\* the exception add_documents raises: generate_embeddings fails first (line
\* 60), then the assistant id is looked at (71-72), then the rows are written
AddDocumentsError(store, documents, fault) == IF AddDocumentsOk(store, documents, fault) THEN NoneId ELSE IF fault.kind = "embedding" THEN "EmbeddingError" ELSE IF store.assistant_id = NoneId THEN "ValueError" ELSE "DatabaseError"

\* add_documents, lines 49-105: the table after the call. One transaction:
\* commit after the last row, rollback on any exception
AddDocumentsTableNoRollback(table, store, documents, fault) == IF documents = <<>> \/ fault.kind = "embedding" \/ store.assistant_id = NoneId THEN table ELSE IF fault.kind = "backend" THEN ExecuteMany(table, InsertData(store, documents), fault.failAt - 1) ELSE ExecuteMany(table, InsertData(store, documents), Len(documents))
AddDocumentsTable(table, store, documents, fault) == IF AddDocumentsOk(store, documents, fault) THEN ExecuteMany(table, InsertData(store, documents), Len(documents)) ELSE table

\* cosine similarity of a chunk's embedding to the embedding of the query,
\* in tenths: "xx" and "y" tie
CosineSimilarity(content) == IF content = "x" THEN 9 ELSE 5
Thresholds == {0, 5, 9, 10}
MaxK == 2

\* SQL comparison column = parameter: never true when either side is NULL
SqlEq(column, param) == column # NoneId /\ param # NoneId /\ column = param

\* the chunks of one assistant that clear the threshold
Candidates(table, assistant_id, threshold) == {r \in table : SqlEq(r.assistant_id, assistant_id) /\ CosineSimilarity(r.content) >= threshold}

\* r comes no later than o: higher similarity first, ties by lower chunk_index
RanksBefore(r, o) == CosineSimilarity(r.content) > CosineSimilarity(o.content) \/ (CosineSimilarity(r.content) = CosineSimilarity(o.content) /\ r.chunk_index <= o.chunk_index)

RECURSIVE TopK(_, _)
TopK(rows, k) == IF rows = {} \/ k <= 0 THEN <<>> ELSE LET best == CHOOSE r \in rows : \A o \in rows : RanksBefore(r, o) IN <<best>> \o TopK(rows \ {best}, k - 1)

\* SQL function search_similar_documents(query_embedding, assistant_id,
\* project_id, match_count, similarity_threshold)
SearchSimilarDocuments(table, assistant_id, project_id, match_count, similarity_threshold) == TopK(Candidates(table, assistant_id, similarity_threshold), match_count)

\* search, lines 174-189: one result dictionary per row, in the order fetched
SearchResultsReversed(table, store, k, threshold) == LET rows == SearchSimilarDocuments(table, store.assistant_id, store.project_id, k, threshold) IN [i \in 1..Len(rows) |-> [id |-> rows[Len(rows) + 1 - i].id, content |-> rows[Len(rows) + 1 - i].content, metadata |-> rows[Len(rows) + 1 - i].metadata, score |-> CosineSimilarity(rows[Len(rows) + 1 - i].content), document_id |-> rows[Len(rows) + 1 - i].document_id, chunk_index |-> rows[Len(rows) + 1 - i].chunk_index]]
SearchResults(table, store, k, threshold) == LET rows == SearchSimilarDocuments(table, store.assistant_id, store.project_id, k, threshold) IN [i \in 1..Len(rows) |-> [id |-> rows[i].id, content |-> rows[i].content, metadata |-> rows[i].metadata, score |-> CosineSimilarity(rows[i].content), document_id |-> rows[i].document_id, chunk_index |-> rows[i].chunk_index]]

\* SQL function delete_document_embeddings(project_id, document_id): the rows
\* it removes
DeleteDocumentEmbeddings(table, project_id, document_id) == {r \in table : SqlEq(r.project_id, project_id) /\ r.document_id = document_id}

\* clear_project_documents, line 238: DELETE ... WHERE project_id = %s
ClearedRows(table, project_id) == {r \in table : SqlEq(r.project_id, project_id)}

\* update_metadata, lines 297-301: UPDATE ... SET metadata = %s WHERE
\* project_id = %s AND document_id = %s
UpdatedRows(table, project_id, document_id) == {r \in table : SqlEq(r.project_id, project_id) /\ r.document_id = document_id}

\* one VectorStore call and its outcome: ok is FALSE when it raised error; results
\* are search's return value, count the number returned by the other calls
VsCall(op, store, documents, document_id, k, threshold, ok, error, results, count) == [op |-> op, store |-> store, documents |-> documents, document_id |-> document_id, k |-> k, threshold |-> threshold, ok |-> ok, error |-> error, results |-> results, count |-> count]

\* VectorStore.add_documents(documents)
AddDocuments(store, documents, fault, cap) ==
    /\ Len(vsResp) < cap
    /\ document_embeddings' = AddDocumentsTable(document_embeddings, store, documents, fault)
    /\ vsResp' = Append(vsResp, VsCall("add_documents", store, documents, NoneId, 0, 0, AddDocumentsOk(store, documents, fault), AddDocumentsError(store, documents, fault), <<>>, 0))
    /\ UNCHANGED <<auxVars, coreVars, allowed_domains, createResp>>

\* VectorStore.search(query, k, threshold): ValueError without an assistant id
Search(store, k, threshold, cap) ==
    /\ Len(vsResp) < cap
    /\ vsResp' = Append(vsResp, IF store.assistant_id = NoneId THEN VsCall("search", store, <<>>, NoneId, k, threshold, FALSE, "ValueError", <<>>, 0) ELSE VsCall("search", store, <<>>, NoneId, k, threshold, TRUE, NoneId, SearchResults(document_embeddings, store, k, threshold), 0))
    /\ UNCHANGED <<auxVars, coreVars, allowed_domains, createResp, document_embeddings>>

\* VectorStore.delete_document(document_id)
DeleteDocument(store, document_id, cap) ==
    /\ Len(vsResp) < cap
    /\ document_embeddings' = document_embeddings \ DeleteDocumentEmbeddings(document_embeddings, store.project_id, document_id)
    /\ vsResp' = Append(vsResp, VsCall("delete_document", store, <<>>, document_id, 0, 0, TRUE, NoneId, <<>>, Cardinality(DeleteDocumentEmbeddings(document_embeddings, store.project_id, document_id))))
    /\ UNCHANGED <<auxVars, coreVars, allowed_domains, createResp>>

\* VectorStore.clear_project_documents()
ClearProjectDocuments(store, cap) ==
    /\ Len(vsResp) < cap
    /\ document_embeddings' = document_embeddings \ ClearedRows(document_embeddings, store.project_id)
    /\ vsResp' = Append(vsResp, VsCall("clear_project_documents", store, <<>>, NoneId, 0, 0, TRUE, NoneId, <<>>, Cardinality(ClearedRows(document_embeddings, store.project_id))))
    /\ UNCHANGED <<auxVars, coreVars, allowed_domains, createResp>>

\* VectorStore.update_metadata(document_id, metadata)
UpdateMetadata(store, document_id, metadata, cap) ==
    /\ Len(vsResp) < cap
    /\ document_embeddings' = {IF r \in UpdatedRows(document_embeddings, store.project_id, document_id) THEN [r EXCEPT !.metadata = metadata] ELSE r : r \in document_embeddings}
    /\ vsResp' = Append(vsResp, VsCall("update_metadata", store, <<>>, document_id, 0, 0, TRUE, NoneId, <<>>, Cardinality(UpdatedRows(document_embeddings, store.project_id, document_id))))
    /\ UNCHANGED <<auxVars, coreVars, allowed_domains, createResp>>

\* the state every store specification starts from: an empty table
InitStore ==
    /\ InitCore({MaxLimit}, {MaxLimit + 1}, {MaxLimit + 1}, {MaxDuration},
                {{}}, {"sessions"})
    /\ allowed_domains = <<>>
    /\ createResp = NoCreate
    /\ document_embeddings = {}
    /\ vsResp = NoVsResp

\* documents are uploaded, searched, deleted and re-tagged through the
\* stores of two assistants
MaxVsOps == 3
StoreNext ==
    \/ \E store \in ScopedStores, documents \in {BatchGivenId, BatchDefaulted, BatchGivenKey} : AddDocuments(store, documents, [kind |-> "none", failAt |-> 0], MaxVsOps)
    \/ \E store \in ScopedStores : Search(store, MaxK, 0, MaxVsOps)
    \/ \E store \in ScopedStores, document_id \in DocumentIds : DeleteDocument(store, document_id, MaxVsOps)
    \/ \E store \in ScopedStores : ClearProjectDocuments(store, MaxVsOps)
    \/ \E store \in ScopedStores : UpdateMetadata(store, "d1", "{tag}", MaxVsOps)

SpecStore == InitStore /\ [][StoreNext]_vars

\* uploads that may fail, through a store with and a store without an
\* assistant id
MaxUpserts == 2
UpsertNext ==
    \/ \E store \in {StoreA1, StoreNoAssistant}, documents \in Batches : \E fault \in Faults(documents) : AddDocuments(store, documents, fault, MaxUpserts)

SpecUpsert == InitStore /\ [][UpsertNext]_vars

\* searches over the tables that two uploads can leave
MaxSearches == 1
StoredTables == {AddDocumentsTable(AddDocumentsTable({}, s1, b1, [kind |-> "none", failAt |-> 0]), s2, b2, [kind |-> "none", failAt |-> 0]) : s1 \in ScopedStores, s2 \in ScopedStores, b1 \in Batches, b2 \in Batches}

InitSearch ==
    /\ InitCore({MaxLimit}, {MaxLimit + 1}, {MaxLimit + 1}, {MaxDuration},
                {{}}, {"sessions"})
    /\ allowed_domains = <<>>
    /\ createResp = NoCreate
    /\ document_embeddings \in StoredTables
    /\ vsResp = NoVsResp

SearchNext ==
    \/ \E store \in Stores, k \in 0..MaxK, threshold \in Thresholds : Search(store, k, threshold, MaxSearches)

SpecSearch == InitSearch /\ [][SearchNext]_vars

\* --------------------------------- POST /api/public/assistants/message

\* RAGService.create_for_assistant(cls, assistant_id, document_collection,
\* assistant_config): the parameters a call may name
CreateForAssistantParams == {"assistant_id", "document_collection", "assistant_config"}

\* send_message's call: create_for_assistant(assistant['id'],
\* project_id=..., assistant_config=...)
CreateForAssistantCall == {"assistant_id", "project_id", "assistant_config"}

\* whether Python accepts the call; a keyword that is no parameter raises TypeError
CallAccepted == CreateForAssistantCall \subseteq CreateForAssistantParams

Others == <<auxVars, extVars, now, project, sessions, issued, apikey, keyUsage, lastCheck, focus>>

\* an entry of hist, made as the step ends
Event(ev, status, st) ==
    [ev |-> ev, t |-> now, status |-> status,
     current_minute_requests |-> st.current_minute_requests,
     minute_limit |-> st.minute_limit]

\* hist after a step of worker r: in a scenario run, the outcome of a
\* request is appended as the request finishes
HistAfterStep(r) ==
    IF focus = "scenario" /\ req'[r].pc = "done"
    THEN Append(hist, Event("end", req'[r].status, req'[r].detail))
    ELSE hist

HistAfterStart ==
    IF focus = "scenario"
    THEN Append(hist, Event("start", 0, RateLimited0))
    ELSE hist

\* a request arrives at a worker; its token is one a client was issued, or
\* one that no session ever gets
Start(r, tok, a) ==
    /\ req[r].pc \in {"idle", "done"}
    /\ tok <= issued \/ tok > MaxLiveSessions
    /\ started < MaxRequests
    /\ started' = started + 1
    /\ req' = [req EXCEPT ![r] =
                 [IdleRequest EXCEPT !.pc = "validate", !.token = tok,
                                     !.assistant = a]]
    /\ hist' = HistAfterStart
    /\ UNCHANGED <<usage, admitted>>
    /\ UNCHANGED Others

\* lines 221-233: session = get_session_by_token(token); 401 when None
Validate(r) ==
    LET session == GetSessionByToken(req[r].token)
    IN /\ req[r].pc = "validate"
       /\ req' = [req EXCEPT ![r] =
                    IF session.found
                    THEN [@ EXCEPT !.pc = "check", !.stage = 1,
                                   !.allowed = session.allowed_assistants]
                    ELSE [@ EXCEPT !.pc = "http_exc", !.status = 401]]
       /\ UNCHANGED <<usage, admitted, started>>
       /\ hist' = HistAfterStep(r)
       /\ UNCHANGED Others

\* the admissions of a token after one more request passed the quota check
Admit(tok) ==
    [admitted EXCEPT ![tok] =
        IF @.window = MinuteWindow(now) /\ @.n > 0
        THEN [@ EXCEPT !.n = @ + 1]
        ELSE [window |-> MinuteWindow(now), n |-> 1]]

\* lines 235-248: check_rate_limit(token); 429 with the three windows
CheckRate(r) ==
    LET st == CheckRateLimit(req[r].token)
    IN /\ req[r].pc = "check"
       /\ IF st.is_rate_limited
          THEN /\ req' = [req EXCEPT ![r] =
                            [@ EXCEPT !.pc = "http_exc", !.status = 429,
                                      !.detail = st]]
               /\ UNCHANGED admitted
          ELSE /\ req' = [req EXCEPT ![r] = [@ EXCEPT !.pc = "authorize", !.stage = 2]]
               /\ admitted' = Admit(req[r].token)
       /\ UNCHANGED <<usage, started>>
       /\ hist' = HistAfterStep(r)
       /\ UNCHANGED Others

\* the check with an empty allow-list permitting nothing
AssistantPermittedListedOnly(allowed, a) == a \in allowed

\* the assistant check that lets every assistant through
AssistantPermittedAlways(allowed, a) == TRUE

\* lines 250-252: allowed_assistants and assistant_id not in allowed_assistants
AssistantPermitted(allowed, a) == ~(allowed # {} /\ a \notin allowed)

\* lines 250-256: 403 when the assistant is not permitted
Authorize(r) ==
    /\ req[r].pc = "authorize"
    /\ req' = [req EXCEPT ![r] =
                 IF AssistantPermitted(req[r].allowed, req[r].assistant)
                 THEN [@ EXCEPT !.pc = "prepare", !.stage = 3]
                 ELSE [@ EXCEPT !.pc = "http_exc", !.status = 403]]
    /\ UNCHANGED <<usage, admitted, started>>
    /\ hist' = HistAfterStep(r)
    /\ UNCHANGED Others

\* lines 258-317: look the assistant up (404); read the project's admin code
\* (get_project_by_id returns None for an inactive project, and subscripting
\* None raises TypeError); find the project owner (500); sanitize the message
\* (400); append the user message to the conversation
Prepare(r, msg, hasOwner) ==
    /\ req[r].pc = "prepare"
    /\ req' = [req EXCEPT ![r] =
                 IF req[r].assistant \notin ActiveAssistants
                 THEN [@ EXCEPT !.pc = "http_exc", !.status = 404]
                 ELSE IF ~GetProjectById.found
                 THEN [@ EXCEPT !.pc = "exc"]
                 ELSE IF ~hasOwner
                 THEN [@ EXCEPT !.pc = "http_exc", !.status = 500]
                 ELSE IF msg.sanitized_len > MaxSanitizedLen \/ msg.blank
                 THEN [@ EXCEPT !.pc = "http_exc", !.status = 400]
                 ELSE [@ EXCEPT !.pc = "rag", !.logged = @ + 1]]
    /\ UNCHANGED <<usage, admitted, started>>
    /\ hist' = HistAfterStep(r)
    /\ UNCHANGED Others

\* lines 319-369: build the RAG service, query it, append the answer,
\* record the usage and answer 200; any exception goes to the handler
Rag(r) ==
    /\ req[r].pc = "rag"
    /\ IF CallAccepted
       THEN LET rec == RecordUsage(req[r].token)
            IN /\ usage' = rec.usage
               /\ req' = [req EXCEPT ![r] =
                            [@ EXCEPT !.pc = "done", !.status = 200,
                                      !.searched = TRUE, !.generated = TRUE,
                                      !.logged = @ + 1,
                                      !.recorded = @ + (IF rec.ok THEN 1 ELSE 0)]]
       ELSE /\ req' = [req EXCEPT ![r] = [@ EXCEPT !.pc = "exc"]]
            /\ UNCHANGED usage
    /\ UNCHANGED <<admitted, started>>
    /\ hist' = HistAfterStep(r)
    /\ UNCHANGED Others

\* lines 371-384: except HTTPException: record_usage, then re-raise
HandleHTTPException(r) ==
    LET rec == RecordUsage(req[r].token)
    IN /\ req[r].pc = "http_exc"
       /\ usage' = rec.usage
       /\ req' = [req EXCEPT ![r] =
                    [@ EXCEPT !.pc = "done",
                              !.recorded = @ + (IF rec.ok THEN 1 ELSE 0)]]
       /\ UNCHANGED <<admitted, started>>
       /\ hist' = HistAfterStep(r)
       /\ UNCHANGED Others

\* lines 385-405: except Exception: record_usage, then raise a 500
HandleException(r) ==
    LET rec == RecordUsage(req[r].token)
    IN /\ req[r].pc = "exc"
       /\ usage' = rec.usage
       /\ req' = [req EXCEPT ![r] =
                    [@ EXCEPT !.pc = "done", !.status = 500,
                              !.recorded = @ + (IF rec.ok THEN 1 ELSE 0)]]
       /\ UNCHANGED <<admitted, started>>
       /\ hist' = HistAfterStep(r)
       /\ UNCHANGED Others

\* one step of the handler of worker r
SendMessageStep(r) ==
    \/ Validate(r)
    \/ CheckRate(r)
    \/ Authorize(r)
    \/ \E msg \in Messages, hasOwner \in BOOLEAN : Prepare(r, msg, hasOwner)
    \/ Rag(r)
    \/ HandleHTTPException(r)
    \/ HandleException(r)

Init ==
    InitWith({1, MaxLimit}, {MaxLimit + 1}, {MaxLimit + 1}, {MaxDuration},
             {{}, {"A"}}, {"sessions"})

\* one worker serves requests while sessions are created, the project is
\* switched off and on, and time passes
Next ==
    \/ Tick
    \/ CreateSession(MaxLiveSessions)
    \/ \E ia \in BOOLEAN : UpdateProject({ia}, {}, {}, {}, {}, {})
    \/ \E tok \in Tokens, a \in AssistantNames : Start(1, tok, a)
    \/ SendMessageStep(1)

Spec == Init /\ [][Next]_vars

\* every worker serves requests on the sessions of one project
RaceNext ==
    \/ Tick
    \/ CreateSession(MaxLiveSessions)
    \/ \E r \in Req, tok \in Tokens : Start(r, tok, "A")
    \/ \E r \in Req : SendMessageStep(r)

SpecRace == Init /\ [][RaceNext]_vars

\* the spec's end-to-end scenario: one client creates a session and sends
\* acceptable messages to a permitted, active assistant, one after the other
HelloMsg == [text |-> "hello", sanitized_len |-> 5, blank |-> FALSE]

InitScenario ==
    InitWith(LimitVals, {MaxLimit + 1}, {MaxLimit + 1}, {1, MaxDuration},
             {{"A"}}, {"scenario"})

ScenarioStep ==
    \/ Validate(1)
    \/ CheckRate(1)
    \/ Authorize(1)
    \/ Prepare(1, HelloMsg, TRUE)
    \/ Rag(1)
    \/ HandleHTTPException(1)
    \/ HandleException(1)

ScenarioNext ==
    \/ Tick
    \/ CreateSession(MaxLiveSessions)
    \/ issued >= 1 /\ Start(1, 1, "A")
    \/ ScenarioStep

SpecScenario == InitScenario /\ [][ScenarioNext]_vars

\* --------------------------------------------------- app/rag_service.py

\* what retrieval hands to query: up to MaxDocs chunks, whose content may be
\* the empty string
MaxDocs == 2
ChunkTexts == {"", "x"}
RetrievedDocs == UNION {[1..n -> ChunkTexts] : n \in 0..MaxDocs}

\* "\n\n".join(parts), as the sequence of its non-empty pieces: the string
\* is empty exactly when the sequence is
RECURSIVE JoinParagraphs(_)
JoinParagraphs(parts) == IF parts = <<>> THEN <<>> ELSE JoinParagraphs(SubSeq(parts, 1, Len(parts) - 1)) \o (IF Len(parts) > 1 THEN <<"\n\n">> ELSE <<>>) \o (IF parts[Len(parts)] = "" THEN <<>> ELSE <<parts[Len(parts)]>>)

\* generate_response, lines 61-80: the prompt. The template with the Context
\* section is used when the joined context is a non-empty string
Prompt(query, context_docs, system_instructions) == [instructions |-> IF system_instructions = NoneId THEN "default" ELSE system_instructions, with_context |-> JoinParagraphs(context_docs) # <<>>, context |-> JoinParagraphs(context_docs), question |-> query]

\* query, lines 88-112: the dictionary returned
QueryResult(relevant_docs, answer) == IF relevant_docs = <<>> THEN [answer |-> answer, sources |-> 0, context_used |-> FALSE] ELSE [answer |-> answer, sources |-> Len(relevant_docs), context_used |-> TRUE]

\* one call of RAGService.query in ragResp
NoPrompt == [instructions |-> NoneId, with_context |-> FALSE, context |-> <<>>, question |-> NoneId]
NoResult == [answer |-> NoneId, sources |-> 0, context_used |-> FALSE]
NewQuery(question, system_instructions) == [pc |-> "search", question |-> question, system_instructions |-> system_instructions, search_attempts |-> 0, generate_attempts |-> 0, relevant_docs |-> <<>>, prompt |-> NoPrompt, result |-> NoResult]

ragOthers == <<coreVars, extVars, msgResp, mwResp, failed_login_attempts, authResp, admin_codes, users, regReq>>

\* RAGService.query(question, system_instructions=...) is entered
QueryStart(question, system_instructions, cap) ==
    /\ Len(ragResp) < cap
    /\ IF ragResp = <<>> THEN TRUE ELSE ragResp[Len(ragResp)].pc \in {"returned", "raised"}
    /\ ragResp' = Append(ragResp, NewQuery(question, system_instructions))
    /\ UNCHANGED ragOthers

\* line 86: relevant_docs = self.vector_store.similarity_search(...); an
\* exception leaves query at once
QuerySearch(ok, docs) ==
    /\ ragResp # <<>>
    /\ ragResp[Len(ragResp)].pc = "search"
    /\ ok \/ docs = <<>>
    /\ ragResp' = [ragResp EXCEPT ![Len(ragResp)] = IF ok THEN [@ EXCEPT !.pc = "generate", !.search_attempts = @ + 1, !.relevant_docs = docs] ELSE [@ EXCEPT !.pc = "raised", !.search_attempts = @ + 1]]
    /\ UNCHANGED ragOthers

\* lines 88-112 with generate_response, lines 60-83: the prompt is built and
\* handed to the generator; an exception of the generator leaves query
QueryGenerate(ok) ==
    /\ ragResp # <<>>
    /\ ragResp[Len(ragResp)].pc = "generate"
    /\ LET call == ragResp[Len(ragResp)]
           prompt == Prompt(call.question, call.relevant_docs, call.system_instructions)
       IN ragResp' = [ragResp EXCEPT ![Len(ragResp)] = IF ok THEN [call EXCEPT !.pc = "returned", !.generate_attempts = @ + 1, !.prompt = prompt, !.result = QueryResult(call.relevant_docs, "answer")] ELSE [call EXCEPT !.pc = "raised", !.generate_attempts = @ + 1, !.prompt = prompt]]
    /\ UNCHANGED ragOthers

\* queries against a retrieval step that returns chunks or fails, and a
\* generator that answers or fails
MaxQueries == 2
QueryNext ==
    \/ \E system_instructions \in {NoneId, "be brief"} : QueryStart("q", system_instructions, MaxQueries)
    \/ \E ok \in BOOLEAN, docs \in RetrievedDocs : QuerySearch(ok, docs)
    \/ \E ok \in BOOLEAN : QueryGenerate(ok)

SpecQuery == InitStore /\ [][QueryNext]_vars

\* ------------------------------- app/routers/public_api.py: sanitize_message

\* a message is a sequence of pieces of text; its text is their concatenation
MaxMsgLen == 3
Whitespace == {" ", "\n"}
Pieces == {"<", ">", "/", ":", " ", "\n", "system", "SYSTEM", "hi"}

\* the pieces of the longer phrasings, in mixed case
PhraseMessages == {<<"Ignore", " ", "previous", "\n", "INSTRUCTIONS">>, <<"forget", " ", " ", "everything">>, <<"hi", " ", "pretend", " ", "to", " ", "be">>, <<"act", " ", "as", " ", "if">>, <<"roleplay", " ", "as">>, <<"ignore", "previous", "instructions">>, <<"<", "/", "system", ">">>, <<"assistant", ":">>, <<"human", " ", ":">>, <<"user", ":">>, <<"<", "assistant", ">">>}
RawMessages == UNION {[1..n -> Pieces] : n \in 0..MaxMsgLen} \cup PhraseMessages

\* str.lower() of a piece: the (?i) flag of every pattern
LowerPiece(piece) == CASE piece = "SYSTEM" -> "system" [] piece = "Ignore" -> "ignore" [] piece = "INSTRUCTIONS" -> "instructions" [] OTHER -> piece

\* message.strip(), line 28
RECURSIVE Strip(_)
Strip(message) == IF message = <<>> THEN <<>> ELSE IF message[1] \in Whitespace THEN Strip(Tail(message)) ELSE IF message[Len(message)] \in Whitespace THEN Strip(SubSeq(message, 1, Len(message) - 1)) ELSE message

\* re.sub(r'\n{3,}', '\n\n', message), line 31
RECURSIVE CollapseNewlines(_)
CollapseNewlines(message) == IF Len(message) < 3 THEN message ELSE IF message[1] = "\n" /\ message[2] = "\n" /\ message[3] = "\n" THEN CollapseNewlines(Tail(message)) ELSE <<message[1]>> \o CollapseNewlines(Tail(message))

\* html.escape(message), line 34
EscapePiece(piece) == CASE piece = "<" -> "&lt;" [] piece = ">" -> "&gt;" [] piece = "&" -> "&amp;" [] OTHER -> piece
HtmlEscape(message) == [i \in 1..Len(message) |-> EscapePiece(message[i])]

\* injection_patterns, lines 37-49: "ws+" is \s+, "ws*" is \s*, "slash?" is
\* /?, anything else is literal text matched without regard to case
injection_patterns == <<
    <<"ignore", "ws+", "previous", "ws+", "instructions">>,
    <<"forget", "ws+", "everything">>,
    <<"system", "ws*", ":">>,
    <<"assistant", "ws*", ":">>,
    <<"human", "ws*", ":">>,
    <<"user", "ws*", ":">>,
    <<"<", "ws*", "slash?", "system", "ws*", ">">>,
    <<"<", "ws*", "slash?", "assistant", "ws*", ">">>,
    <<"act", "ws+", "as", "ws+", "if">>,
    <<"pretend", "ws+", "to", "ws+", "be">>,
    <<"roleplay", "ws+", "as">> >>

\* the first position at or after pos that holds no whitespace
RECURSIVE SkipWhitespace(_, _)
SkipWhitespace(message, pos) == IF pos > Len(message) THEN pos ELSE IF message[pos] \in Whitespace THEN SkipWhitespace(message, pos + 1) ELSE pos

\* the regular expression engine: the position after the match of
\* pattern[i..] at pos, or 0 when there is no match there
RECURSIVE MatchEnd(_, _, _, _)
MatchEnd(pattern, i, message, pos) == IF i > Len(pattern) THEN pos ELSE IF pattern[i] = "ws*" THEN MatchEnd(pattern, i + 1, message, SkipWhitespace(message, pos)) ELSE IF pattern[i] = "ws+" THEN (IF pos <= Len(message) /\ message[pos] \in Whitespace THEN MatchEnd(pattern, i + 1, message, SkipWhitespace(message, pos)) ELSE 0) ELSE IF pattern[i] = "slash?" THEN MatchEnd(pattern, i + 1, message, IF pos <= Len(message) /\ message[pos] = "/" THEN pos + 1 ELSE pos) ELSE IF pos <= Len(message) /\ LowerPiece(message[pos]) = pattern[i] THEN MatchEnd(pattern, i + 1, message, pos + 1) ELSE 0

\* re.sub(pattern, '[FILTERED]', message), line 52: every match, left to right
RECURSIVE ReSub(_, _, _)
ReSub(pattern, message, pos) == IF pos > Len(message) THEN <<>> ELSE IF MatchEnd(pattern, 1, message, pos) = 0 THEN <<message[pos]>> \o ReSub(pattern, message, pos + 1) ELSE <<"[FILTERED]">> \o ReSub(pattern, message, MatchEnd(pattern, 1, message, pos))

\* lines 51-52: the first n patterns one after the other
RECURSIVE ApplyPatterns(_, _)
ApplyPatterns(message, n) == IF n = 0 THEN message ELSE ReSub(injection_patterns[n], ApplyPatterns(message, n - 1), 1)

\* sanitize_message, lines 22-54: the patterns are applied to the escaped text
SanitizeMessage(message) == IF message = <<>> THEN <<>> ELSE ApplyPatterns(HtmlEscape(CollapseNewlines(Strip(message))), Len(injection_patterns))

\* one message on its way through send_message
NewMessage(message) == [pc |-> "received", message |-> message, sanitized_message |-> <<>>, status |-> 0, stored |-> FALSE, content |-> <<>>, queried |-> FALSE, query |-> <<>>]

msgOthers == <<coreVars, extVars, ragResp, mwResp, failed_login_attempts, authResp, admin_codes, users, regReq>>

\* send_message receives message_request.message
ReceiveMessage(message) ==
    /\ msgResp = <<>>
    /\ msgResp' = <<NewMessage(message)>>
    /\ UNCHANGED msgOthers

\* send_message, lines 293-334: sanitize; 400 for a blank result; append the
\* user message; build the RAG service and hand it the text
SanitizeAndQuery ==
    /\ msgResp # <<>>
    /\ msgResp[1].pc = "received"
    /\ LET sanitized_message == SanitizeMessage(msgResp[1].message)
       IN msgResp' = <<IF Strip(sanitized_message) = <<>>
                       THEN [msgResp[1] EXCEPT !.pc = "done", !.sanitized_message = sanitized_message, !.status = 400]
                       ELSE IF CallAccepted
                       THEN [msgResp[1] EXCEPT !.pc = "done", !.sanitized_message = sanitized_message, !.stored = TRUE, !.content = sanitized_message, !.queried = TRUE, !.query = sanitized_message]
                       ELSE [msgResp[1] EXCEPT !.pc = "done", !.sanitized_message = sanitized_message, !.stored = TRUE, !.content = sanitized_message, !.status = 500]>>
    /\ UNCHANGED msgOthers

SanitizeNext ==
    \/ \E message \in RawMessages : ReceiveMessage(message)
    \/ SanitizeAndQuery

SpecSanitize == InitStore /\ [][SanitizeNext]_vars

\* ------------------------------------------ app/middleware/api_key_auth.py

\* a path is the sequence of the pieces of its text: "/documents" is
\* <<"/", "docs", "uments">>, so that its prefix "/docs" can be told
PathChat == <<"/", "chat">>
PathAsk == <<"/", "queries", "/", "ask">>
PathAssistants == <<"/", "assistants">>
PathAssistant == <<"/", "assistants", "/", "a1">>
PathDocuments == <<"/", "docs", "uments">>
PathDocument == <<"/", "docs", "uments", "/", "d1">>
PathHealth == <<"/", "health">>
PathDocs == <<"/", "docs">>
PathLogin == <<"/", "auth", "/", "login">>
PathRoot == <<"/">>
PathOther == <<"/", "other">>
Paths == {PathChat, PathAsk, PathAssistants, PathAssistant, PathDocuments, PathDocument, PathHealth, PathDocs, PathLogin, PathRoot, PathOther}
Methods == {"GET", "POST"}

\* __init__, lines 21-36 and 39-44
api_key_endpoints == {[pattern |-> PathChat, methods |-> {"POST"}], [pattern |-> PathAsk, methods |-> {"POST"}], [pattern |-> PathAssistants, methods |-> {"GET"}], [pattern |-> <<"/", "assistants", "/", "{assistant_id}">>, methods |-> {"GET"}], [pattern |-> PathDocuments, methods |-> {"GET"}], [pattern |-> <<"/", "docs", "uments", "/", "{document_id}">>, methods |-> {"GET"}], [pattern |-> PathHealth, methods |-> {"GET"}]}
bypass_endpoints == {<<"/", "docs">>, <<"/", "redoc">>, <<"/", "openapi.json">>, <<"/", "auth", "/">>, <<"/", "admin", "/">>, <<"/", "cms", "/">>, <<"/", "api-keys", "/">>, <<"/", "projects", "/">>, <<"/", "api", "/", "public", "/">>, <<"/", "assistantjs.js">>, <<"/">>, <<"/", "health">>}

\* str.startswith
StartsWith(text, prefix) == Len(prefix) <= Len(text) /\ SubSeq(text, 1, Len(prefix)) = prefix

\* text.strip("/")
RECURSIVE StripSlashes(_)
StripSlashes(text) == IF text = <<>> THEN <<>> ELSE IF text[1] = "/" THEN StripSlashes(Tail(text)) ELSE IF text[Len(text)] = "/" THEN StripSlashes(SubSeq(text, 1, Len(text) - 1)) ELSE text

\* text.split("/"): the parts between the slashes
RECURSIVE SplitSlashes(_)
SplitSlashes(text) == IF text = <<>> THEN << <<>> >> ELSE IF text[1] = "/" THEN << <<>> >> \o SplitSlashes(Tail(text)) ELSE << <<text[1]>> \o SplitSlashes(Tail(text))[1] >> \o Tail(SplitSlashes(Tail(text)))

\* a pattern part of the form {name}
IsParameter(part) == part \in {<<"{assistant_id}">>, <<"{document_id}">>}
HasParameter(pattern) == \E i \in 1..Len(pattern) : IsParameter(<<pattern[i]>>)

\* _path_matches_pattern, lines 61-79
PathMatchesPattern(path, pattern) == IF ~HasParameter(pattern) THEN path = pattern ELSE LET path_parts == SplitSlashes(StripSlashes(path)) pattern_parts == SplitSlashes(StripSlashes(pattern)) IN Len(path_parts) = Len(pattern_parts) /\ \A i \in 1..Len(pattern_parts) : IsParameter(pattern_parts[i]) \/ path_parts[i] = pattern_parts[i]

\* the endpoint is listed in api_key_endpoints with this method
Listed(path, method) == \E e \in api_key_endpoints : PathMatchesPattern(path, e.pattern) /\ method \in e.methods

\* should_check_api_key, lines 46-59
should_check_api_key(path, method) == IF \E bypass_path \in bypass_endpoints : StartsWith(path, bypass_path) THEN FALSE ELSE Listed(path, method)

\* the row of api_keys behind the presented key, and get_api_key_by_hash
\* (api_keys.py 156-198): None unless the row is active and not expired
KeyRows == {[exists |-> FALSE, is_active |-> FALSE, expired |-> FALSE], [exists |-> TRUE, is_active |-> FALSE, expired |-> FALSE], [exists |-> TRUE, is_active |-> TRUE, expired |-> TRUE], [exists |-> TRUE, is_active |-> TRUE, expired |-> FALSE]}
GetApiKeyByHash(row) == row.exists /\ row.is_active /\ ~row.expired

\* key_data['permissions']
Permissions == [chat : BOOLEAN, assistants : {"none", "read"}, documents : {"none", "write"}]

\* _check_endpoint_permission, lines 199-223
CheckEndpointPermission(path, method, permissions) == IF StartsWith(path, <<"/", "chat">>) \/ StartsWith(path, <<"/", "queries">>) THEN permissions.chat ELSE IF StartsWith(path, <<"/", "assistants">>) /\ method = "GET" THEN permissions.assistants \in {"read", "write", "admin"} ELSE IF StartsWith(path, <<"/", "assistants">>) /\ method \in {"POST", "PUT", "DELETE"} THEN permissions.assistants \in {"write", "admin"} ELSE IF StartsWith(path, <<"/", "docs", "uments">>) /\ method = "GET" THEN permissions.documents \in {"read", "write", "admin"} ELSE IF StartsWith(path, <<"/", "docs", "uments">>) /\ method \in {"POST", "PUT", "DELETE"} THEN permissions.documents \in {"write", "admin"} ELSE TRUE

\* what lies behind call_next: a response with a status, or an exception
\* that no handler downstream turns into a response
Downstreams == {"200", "500", "raises"}

\* dispatch, lines 100-197, from the result of should_check_api_key on: the
\* status answered, whether the request was forwarded, and how many usage
\* records were written
DispatchOutcome(checked, has_key, row, is_rate_limited, permitted, downstream, record_ok) ==
    IF ~checked \/ ~has_key
    THEN [validated |-> FALSE, forwarded |-> TRUE, recorded |-> 0, status |-> IF downstream = "raises" THEN "raised" ELSE downstream]
    ELSE IF ~GetApiKeyByHash(row)
    THEN [validated |-> TRUE, forwarded |-> FALSE, recorded |-> 0, status |-> "401"]
    ELSE IF is_rate_limited
    THEN [validated |-> TRUE, forwarded |-> FALSE, recorded |-> 0, status |-> "429"]
    ELSE IF ~permitted
    THEN [validated |-> TRUE, forwarded |-> FALSE, recorded |-> 0, status |-> "403"]
    ELSE IF downstream = "raises"
    THEN [validated |-> TRUE, forwarded |-> TRUE, recorded |-> 0, status |-> "500"]
    ELSE [validated |-> TRUE, forwarded |-> TRUE, recorded |-> IF record_ok THEN 1 ELSE 0, status |-> downstream]

\* one request on its way through the middleware
NewRequest(path, method, has_key, row, is_rate_limited, permissions, downstream, record_ok) == [pc |-> "arrived", path |-> path, method |-> method, has_key |-> has_key, row |-> row, is_rate_limited |-> is_rate_limited, permissions |-> permissions, downstream |-> downstream, record_ok |-> record_ok, checked |-> FALSE, outcome |-> [validated |-> FALSE, forwarded |-> FALSE, recorded |-> 0, status |-> "none"]]

mwOthers == <<coreVars, extVars, ragResp, msgResp, failed_login_attempts, authResp, admin_codes, users, regReq>>

\* a request reaches the middleware
RequestArrives(path, method, has_key, row, is_rate_limited, permissions, downstream, record_ok) ==
    /\ mwResp = <<>>
    /\ mwResp' = <<NewRequest(path, method, has_key, row, is_rate_limited, permissions, downstream, record_ok)>>
    /\ UNCHANGED mwOthers

\* APIKeyAuthMiddleware.dispatch(request, call_next)
Dispatch ==
    /\ mwResp # <<>>
    /\ mwResp[1].pc = "arrived"
    /\ LET request == mwResp[1]
           checked == should_check_api_key(request.path, request.method)
       IN mwResp' = <<[request EXCEPT !.pc = "done", !.checked = checked, !.outcome = DispatchOutcome(checked, request.has_key, request.row, request.is_rate_limited, CheckEndpointPermission(request.path, request.method, request.permissions), request.downstream, request.record_ok)]>>
    /\ UNCHANGED mwOthers

MiddlewareNext ==
    \/ \E path \in Paths, method \in Methods, has_key \in BOOLEAN, row \in KeyRows, is_rate_limited \in BOOLEAN, permissions \in Permissions, downstream \in Downstreams, record_ok \in BOOLEAN : RequestArrives(path, method, has_key, row, is_rate_limited, permissions, downstream, record_ok)
    \/ Dispatch

SpecMiddleware == InitStore /\ [][MiddlewareNext]_vars

\* ---------------------------------------------------------- app/auth.py

\* lines 20-21
MAX_FAILED_ATTEMPTS == 5
LOCKOUT_DURATION_MINUTES == 15

\* table users: alice has an account, bob has none
RegisteredUsernames == {"alice"}

\* the entry {"attempts": 0, "locked_until": None}
ResetEntry == [present |-> TRUE, attempts |-> 0, locked |-> FALSE, locked_until |-> 0]

\* is_account_locked, lines 86-102, at time t: its result and the tracker it
\* leaves (an expired lockout is reset)
IsAccountLockedForever(tracker, username, t) == IF ~tracker[username].present THEN [locked |-> FALSE, tracker |-> tracker] ELSE IF tracker[username].locked THEN [locked |-> TRUE, tracker |-> tracker] ELSE [locked |-> FALSE, tracker |-> tracker]
IsAccountLocked(tracker, username, t) == IF ~tracker[username].present THEN [locked |-> FALSE, tracker |-> tracker] ELSE IF tracker[username].locked /\ t < tracker[username].locked_until THEN [locked |-> TRUE, tracker |-> tracker] ELSE IF tracker[username].locked /\ t >= tracker[username].locked_until THEN [locked |-> FALSE, tracker |-> [tracker EXCEPT ![username] = ResetEntry]] ELSE [locked |-> FALSE, tracker |-> tracker]

\* record_failed_login, lines 104-109, at time t; the defaultdict makes the
\* entry when there is none
RecordFailedLoginNoLock(tracker, username, t) == [tracker EXCEPT ![username] = [present |-> TRUE, attempts |-> @.attempts + 1, locked |-> @.locked, locked_until |-> @.locked_until]]
RecordFailedLogin(tracker, username, t) == [tracker EXCEPT ![username] = IF @.attempts + 1 >= MAX_FAILED_ATTEMPTS THEN [present |-> TRUE, attempts |-> @.attempts + 1, locked |-> TRUE, locked_until |-> t + LOCKOUT_DURATION_MINUTES] ELSE [present |-> TRUE, attempts |-> @.attempts + 1, locked |-> @.locked, locked_until |-> @.locked_until]]

\* clear_failed_login_attempts, lines 111-114
ClearFailedLoginAttempts(tracker, username) == IF tracker[username].present THEN [tracker EXCEPT ![username] = ResetEntry] ELSE tracker

\* authenticate_user, lines 137-159, at time t: 423 when locked; None for an
\* unknown user or a wrong password, after record_failed_login; else the user
AuthenticateUserResult(tracker, username, password_ok, t) ==
    LET checked == IsAccountLocked(tracker, username, t)
    IN IF checked.locked
       THEN [outcome |-> "423", checked |-> FALSE, tracker |-> checked.tracker]
       ELSE IF username \notin RegisteredUsernames
       THEN [outcome |-> "failed", checked |-> FALSE, tracker |-> RecordFailedLogin(checked.tracker, username, t)]
       ELSE IF ~password_ok
       THEN [outcome |-> "failed", checked |-> TRUE, tracker |-> RecordFailedLogin(checked.tracker, username, t)]
       ELSE [outcome |-> "ok", checked |-> TRUE, tracker |-> ClearFailedLoginAttempts(checked.tracker, username)]

\* the record of a call made at time t for a username whose record was g:
\* outside a lockout period a call with a wrong password or for an unknown
\* user is one more failed call, and the MAX_FAILED_ATTEMPTS-th starts a
\* lockout period at t
CallRecord(g, username, password_ok, t, outcome, checked) ==
    LET during_lock == g.lock_was /\ t < g.lock_from + LOCKOUT_DURATION_MINUTES
        after_expiry == g.lock_was /\ t >= g.lock_from + LOCKOUT_DURATION_MINUTES
        fails == IF after_expiry THEN 0 ELSE g.fails
        good == username \in RegisteredUsernames /\ password_ok
    IN IF during_lock
       THEN [g EXCEPT !.last = outcome, !.password_ok = password_ok, !.checked = checked, !.during_lock = TRUE, !.after_expiry = FALSE]
       ELSE IF good
       THEN [last |-> outcome, password_ok |-> password_ok, checked |-> checked, during_lock |-> FALSE, after_expiry |-> after_expiry, fails |-> 0, lock_was |-> FALSE, lock_from |-> 0]
       ELSE [last |-> outcome, password_ok |-> password_ok, checked |-> checked, during_lock |-> FALSE, after_expiry |-> after_expiry, fails |-> fails + 1, lock_was |-> fails + 1 = MAX_FAILED_ATTEMPTS, lock_from |-> IF fails + 1 = MAX_FAILED_ATTEMPTS THEN t ELSE 0]

authCore == <<project, sessions, issued, usage, apikey, keyUsage, req, started, admitted, hist, lastCheck, focus>>
authOthers == <<extVars, ragResp, msgResp, mwResp, admin_codes, users, regReq>>

\* authenticate_user(username, password)
AuthenticateUser(username, password_ok) ==
    /\ \A result \in {AuthenticateUserResult(failed_login_attempts, username, password_ok, now)} :
          /\ failed_login_attempts' = result.tracker
          /\ authResp' = [authResp EXCEPT ![username] = CallRecord(@, username, password_ok, now, result.outcome, result.checked)]
    /\ UNCHANGED <<now, authCore, authOthers>>

\* a minute passes
MaxAuthTime == 16
AuthTick ==
    /\ now < MaxAuthTime
    /\ now' = now + 1
    /\ UNCHANGED <<authCore, authOthers, failed_login_attempts, authResp>>

AuthNext ==
    \/ \E username \in Usernames, password_ok \in BOOLEAN : AuthenticateUser(username, password_ok)
    \/ AuthTick

SpecAuth == InitStore /\ [][AuthNext]_vars

\* ------------------------------------- app/routers/auth.py: POST /register

\* how a register request names the admin code: role admin with admin_code,
\* another role with user_code, or without the code its role needs
Vias == {"admin_code", "user_code", "none"}

\* AdminCodeDB.can_register_user and can_register_user_with_user_code,
\* database.py 437-461: the row is read by code, or by user_code
CanRegisterUser(row) == row.is_active /\ row.current_users < row.max_users

\* AdminCodeDB.increment_user_count(admin_code or user_code), database.py
\* 425-435: UPDATE ... WHERE code = %s; a user_code is the code of no row
IncrementUserCount(row, via) == IF via = "admin_code" THEN [row EXCEPT !.current_users = @ + 1] ELSE row

regOthers == <<coreVars, extVars, ragResp, msgResp, mwResp, failed_login_attempts, authResp>>

\* register, lines 23-50: the code the role needs is present (400) and
\* admits one more user (400)
RegisterCheck(w, via, cap) ==
    /\ regReq[w].pc \in {"idle", "done"}
    /\ users + Cardinality({v \in Req : regReq[v].pc = "checked"}) < cap
    /\ regReq' = [regReq EXCEPT ![w] = IF via = "none" \/ ~CanRegisterUser(admin_codes) THEN [@ EXCEPT !.pc = "done", !.via = via, !.status = 400] ELSE [@ EXCEPT !.pc = "checked", !.via = via, !.status = 0, !.overlapped = @ \/ \E v \in Req \ {w} : regReq[v].pc = "checked"]]
    /\ UNCHANGED <<admin_codes, users, regOthers>>

\* register, lines 52-62: create_user, then increment_user_count; an
\* exception of create_user is answered 500
RegisterCreate(w, created) ==
    /\ regReq[w].pc = "checked"
    /\ users' = IF created THEN users + 1 ELSE users
    /\ admin_codes' = IF created THEN IncrementUserCount(admin_codes, regReq[w].via) ELSE admin_codes
    /\ regReq' = [regReq EXCEPT ![w] = [@ EXCEPT !.pc = "done", !.status = IF created THEN 200 ELSE 500]]
    /\ UNCHANGED regOthers

\* register requests served by NumWorkers server processes on one database
MaxRegistrations == 4
RegisterNext ==
    \/ \E w \in Req, via \in Vias : RegisterCheck(w, via, MaxRegistrations)
    \/ \E w \in Req, created \in BOOLEAN : RegisterCreate(w, created)

SpecRegister == InitStore /\ [][RegisterNext]_vars

\* ------------------------------------------------------------- claims

\* C1: under any interleaving of concurrent send_message requests on one
\* session, the number of requests that pass the quota check within one
\* minute window never exceeds the project's requests_per_minute.
C1_AdmittedWithinLimit ==
    \A tok \in Tokens : admitted[tok].n <= project.requests_per_minute

\* C2: a request that passed session validation, the quota check and the
\* assistant authorization has been recorded exactly once when it returns.
C2_RecordedExactlyOnce ==
    \A r \in Req :
        (req[r].pc = "done" /\ req[r].stage = 3) => req[r].recorded = 1

\* C3: a request rejected with 401, 429 or 403 is never recorded.
C3_RejectedNotRecorded ==
    \A r \in Req :
        (req[r].pc = "done" /\ req[r].status \in {401, 429, 403})
            => req[r].recorded = 0

Starts == SelectSeq(hist, LAMBDA e : e.ev = "start")
Ends == SelectSeq(hist, LAMBDA e : e.ev = "end")

\* C4: with requests_per_minute = N and a fresh session, of N+1 sequential
\* calls made within one minute window (the session valid throughout) the
\* first N succeed and the (N+1)-th is rejected with 429 reporting
\* current_minute_requests = N and minute_limit = N.
C4_FirstNSucceedThenQuotaExceeded ==
    LET N == project.requests_per_minute
    IN \A i \in 1..Len(Ends) :
          (Starts[1].t = Ends[i].t /\ Ends[i].t < sessions[1].expires_at)
             => /\ i <= N => Ends[i].status = 200
                /\ i = N + 1 => /\ Ends[i].status = 429
                                /\ Ends[i].current_minute_requests = N
                                /\ Ends[i].minute_limit = N

\* C5: send_message fails closed and in order: 401 for an invalid session,
\* else 429 with the counts and limits of the three windows for a limited
\* session, else 403 for an assistant that is not permitted; a request
\* rejected so has searched nothing, generated nothing and logged nothing.
C5_GateInv ==
    \A r \in Req :
        LET q == req[r]
        IN /\ q.status = 401 => q.stage = 0
           /\ q.status = 429 => q.stage = 1 /\ q.detail.is_rate_limited
           /\ q.status = 403 =>
                 q.stage = 2 /\ q.allowed # {} /\ q.assistant \notin q.allowed
           /\ q.status \in {401, 429, 403} =>
                 q.logged = 0 /\ ~q.searched /\ ~q.generated
           /\ q.stage = 3 => q.status \notin {401, 429, 403}

C5_GateStep ==
    \A r \in Req :
        LET q == req[r]
            q2 == req'[r]
        IN /\ (q.pc = "validate" /\ q2.pc # "validate") =>
                 (q2.status = 401 <=> ~GetSessionByToken(q.token).found)
           /\ (q.pc = "check" /\ q2.pc # "check") =>
                 /\ q2.status = 429 <=> CheckRateLimit(q.token).is_rate_limited
                 /\ q2.status = 429 => q2.detail = CheckRateLimit(q.token)
           /\ (q.pc = "authorize" /\ q2.pc # "authorize") =>
                 (q2.status = 403 <=> (q.allowed # {} /\ q.assistant \notin q.allowed))

C5_FailsClosedInOrder == []C5_GateInv /\ [][C5_GateStep]_vars

C5_Witness ==
    \E r \in Req :
        /\ req[r].pc = "done"
        /\ req[r].status = 429
        /\ req[r].detail.minute_limit > 0
        /\ req[r].detail.current_minute_requests = req[r].detail.minute_limit

\* C6: in a minute window in which a valid session has made at least as many
\* record calls as its per-minute limit, check reports the session limited;
\* when the clock then passes a minute boundary that is not a day boundary,
\* check reports a minute count of 0 and the day and session counts it
\* reported before, and the session is limited only if the day or the
\* session limit is reached.
C6_LimitedInWindow ==
    \A tok \in Tokens :
        (/\ SessionRowValid(tok)
         /\ usage[tok].minute_start = MinuteWindow(now)
         /\ usage[tok].minute_count >= project.requests_per_minute)
            => CheckRateLimit(tok).is_rate_limited

C6_BoundaryStep ==
    \A tok \in Tokens :
        (/\ MinuteWindow(now') # MinuteWindow(now)
         /\ DayWindow(now') = DayWindow(now)
         /\ SessionRowValid(tok)
         /\ SessionRowValid(tok)')
            => LET a == CheckRateLimit(tok)
                   b == CheckRateLimit(tok)'
               IN /\ b.current_minute_requests = 0
                  /\ b.current_day_requests = a.current_day_requests
                  /\ b.current_session_requests = a.current_session_requests
                  /\ b.is_rate_limited <=>
                        \/ b.current_day_requests >= b.day_limit
                        \/ b.current_session_requests >= b.session_limit

C8_CheckStep ==
    lastCheck' # NoCheck =>
        /\ usage' = usage
        /\ keyUsage' = keyUsage
        /\ (/\ lastCheck # NoCheck
            /\ lastCheck.kind = lastCheck'.kind
            /\ lastCheck.id = lastCheck'.id) => lastCheck' = lastCheck

C8_CheckIsReadOnly == [][C8_CheckStep]_vars

\* a check has just reported the counts of a session that has records
C8_Witness ==
    /\ lastCheck.kind = "session"
    /\ lastCheck.current_session_requests >= 1
    /\ usage[lastCheck.id].session_count = lastCheck.current_session_requests

\* C9 as stated: once the parent project of a session, or an API key, is
\* deactivated, check reports the identity limited and no later operation
\* makes check report it not limited.
C9_DeactivationStep ==
    /\ \A tok \in Tokens :
          (sessions[tok].present /\ project.exists /\ ~project.is_active)
             => CheckRateLimit(tok)'.is_rate_limited
    /\ (apikey.exists /\ ~apikey.is_active) => KeyCheckRateLimit'.is_rate_limited

C9_DeactivationPermanent == [][C9_DeactivationStep]_vars

\* C9: while the parent project of a session, or an API key, is deactivated,
\* check reports the identity limited whatever its counts are.
C9_LimitedWhileDeactivated ==
    /\ \A tok \in Tokens :
          (sessions[tok].present /\ ~(project.exists /\ project.is_active))
             => CheckRateLimit(tok).is_rate_limited
    /\ ~(apikey.exists /\ apikey.is_active) => KeyCheckRateLimit.is_rate_limited

\* an unexpired session whose counts are under every limit, its project
\* deactivated
C9_Witness ==
    \E tok \in Tokens :
        /\ sessions[tok].present
        /\ sessions[tok].expires_at > now
        /\ project.exists
        /\ ~project.is_active
        /\ usage[tok].session_count >= 1
        /\ ~CheckProjectRateLimit(tok)[7]
        /\ CheckRateLimit(tok).is_rate_limited

\* C10: a session token that has expired is never valid again: no operation
\* moves the expires_at of a session, and get_session_by_token finds no
\* session for the token after any later operation, whether or not the row
\* has been cleaned up.
C10_Expired(tok) ==
    /\ tok <= issued
    /\ sessions[tok].present => sessions[tok].expires_at <= now

C10_ExpiryStep ==
    \A tok \in Tokens :
        /\ (sessions[tok].present /\ sessions'[tok].present)
              => sessions'[tok].expires_at = sessions[tok].expires_at
        /\ C10_Expired(tok) =>
              /\ C10_Expired(tok)'
              /\ ~GetSessionByToken(tok)'.found

C10_ExpiryIsTerminal == [][C10_ExpiryStep]_vars

\* a session created after another has expired (no session lasts longer than
\* MaxDuration): the old token stays dead
C10_Witness ==
    \E t1, t2 \in Tokens :
        /\ sessions[t1].present
        /\ sessions[t1].expires_at <= now
        /\ ~GetSessionByToken(t1).found
        /\ sessions[t2].present
        /\ sessions[t2].expires_at - MaxDuration >= sessions[t1].expires_at
        /\ GetSessionByToken(t2).found

\* C11: get_session_by_token returns a session exactly when the token was
\* issued by create_session, now < expires_at and the parent project exists
\* and is active; for an unknown, an expired or an orphaned token it returns
\* None.  A row is only ever removed once it has expired, so an issued token
\* without a row is an expired one.
C11_FoundIff ==
    \A tok \in Tokens :
        /\ sessions[tok].present => tok <= issued
        /\ GetSessionByToken(tok).found <=>
              /\ tok <= issued
              /\ sessions[tok].present
              /\ now < sessions[tok].expires_at
              /\ project.exists
              /\ project.is_active
        /\ GetSessionByToken(tok).found =>
              /\ GetSessionByToken(tok).id = tok
              /\ GetSessionByToken(tok).expires_at = sessions[tok].expires_at
        /\ ~GetSessionByToken(tok).found => GetSessionByToken(tok) = NoSession

C11_RemovedOnlyExpired ==
    \A tok \in Tokens :
        (sessions[tok].present /\ ~sessions'[tok].present)
            => sessions[tok].expires_at <= now

C11_ValidateContract == []C11_FoundIff /\ [][C11_RemovedOnlyExpired]_vars

\* an unexpired token orphaned by the deletion of its project, next to a
\* token that was never issued
C11_Witness ==
    \E t1, t2 \in Tokens :
        /\ sessions[t1].present
        /\ now < sessions[t1].expires_at
        /\ ~project.exists
        /\ ~GetSessionByToken(t1).found
        /\ t2 > issued
        /\ ~GetSessionByToken(t2).found

\* C12: create_session sets expires_at to the time of creation plus the
\* project's session duration, so a session created for a project whose
\* session duration is 0 is expired at once: get_session_by_token finds
\* nothing for its token right after the create, and never later.
C12_CreateStep ==
    \A tok \in Tokens :
        (issued' = issued + 1 /\ tok = issued + 1) =>
            /\ sessions'[tok].present
            /\ sessions'[tok].expires_at = now + project.session_duration_minutes
            /\ project.session_duration_minutes = 0 =>
                  ~GetSessionByToken(tok)'.found

C12_ZeroDurationNeverValid ==
    \A tok \in Tokens :
        (sessions[tok].present /\ project.session_duration_minutes = 0)
            => ~GetSessionByToken(tok).found

C12_ZeroDurationExpired == []C12_ZeroDurationNeverValid /\ [][C12_CreateStep]_vars

\* a session just created, in the minute of its creation, for an active
\* project of duration 0
C12_Witness ==
    \E tok \in Tokens :
        /\ sessions[tok].present
        /\ sessions[tok].expires_at = now
        /\ project.session_duration_minutes = 0
        /\ project.is_active
        /\ ~GetSessionByToken(tok).found

\* C13: session creation answers 404 when the project is missing or
\* inactive and 403 when the origin fails the project's allowed-domain check;
\* a request that fails stores no session, and a session is stored only for
\* an active project and an allowed origin.
C13_CreateStep ==
    /\ (createResp.pc \in {"idle", "done"} /\ createResp' # createResp) =>
          /\ createResp'.status = 404 <=> ~(project.exists /\ project.is_active)
          /\ createResp'.status = 403 <=>
                /\ project.exists /\ project.is_active
                /\ ~ValidateDomain(allowed_domains, createResp'.origin)
          /\ sessions' = sessions
    /\ (createResp'.pc = "done" /\ createResp'.status # 200) => sessions' = sessions
    /\ sessions' # sessions =>
          /\ createResp'.pc = "done" /\ createResp'.status = 200
          /\ project.exists /\ project.is_active
          /\ ValidateDomain(allowed_domains, createResp'.origin)
          /\ \A tok \in Tokens :
                sessions'[tok] # sessions[tok] =>
                   ~sessions[tok].present /\ tok = createResp'.token

C13_CreateFailsWithoutSession == [][C13_CreateStep]_vars

\* a request from an origin that is not allowed was refused and a request for
\* a switched-off project was refused: nothing is stored
C13_Witness ==
    /\ createResp.pc = "done"
    /\ createResp.status \in {403, 404}
    /\ createResp.origin.given
    /\ allowed_domains # <<>>
    /\ \A tok \in Tokens : ~sessions[tok].present

\* C14: validate_domain(allowed_domains, origin) is true iff allowed_domains
\* is empty, or the origin's host equals some entry without wildcard, or for
\* some entry '*.suffix' the host is a subdomain ending in '.suffix'; every
\* other origin, a missing one included, is rejected.
C14_Expected(allowed, origin) ==
    \/ allowed = <<>>
    \/ /\ origin.given
       /\ origin.scheme
       /\ LET host == LowerSeq(origin.labels)
          IN \E i \in 1..Len(allowed) :
                LET entry == LowerSeq(allowed[i].labels)
                IN IF allowed[i].wild
                   THEN /\ Len(host) > Len(entry)
                        /\ SubSeq(host, Len(host) - Len(entry) + 1, Len(host)) = entry
                   ELSE host = entry

C14_ValidateDomainIff ==
    (createResp.pc # "idle" /\ createResp.status # 404) =>
        (createResp.status # 403 <=> C14_Expected(allowed_domains, createResp.origin))

\* C15: a request that has passed session validation and the quota check is
\* authorized for its assistant iff the project's allowed_assistants set is
\* empty or contains the assistant; it is rejected with 403 exactly when the
\* set is non-empty and does not contain the assistant.
C15_AuthorizeStep ==
    \A r \in Req :
        (req[r].pc = "authorize" /\ req'[r].pc # "authorize") =>
            LET permitted == \/ project.allowed_assistants = {}
                             \/ req[r].assistant \in project.allowed_assistants
            IN /\ req[r].stage = 2
               /\ permitted <=> (req'[r].pc = "prepare" /\ req'[r].stage = 3)
               /\ ~permitted <=> (req'[r].pc = "http_exc" /\ req'[r].status = 403)

C15_AuthorizedIffPermitted == [][C15_AuthorizeStep]_vars

\* one request refused for an assistant outside a non-empty set
C15_Witness ==
    \E r \in Req :
        /\ req[r].pc = "done"
        /\ req[r].status = 403
        /\ req[r].stage = 2
        /\ project.allowed_assistants = {"A"}
        /\ req[r].assistant = "B"

\* ---------------------------------------------------------------- C16

\* the document ids a batch is stored under by a store
BatchDocumentIds(store, documents) == {InsertData(store, documents)[i].document_id : i \in 1..Len(documents)}

\* calls i, i+1, i+2 are an upload, the deletion of one of its documents and
\* a search, all through the same store
C16_UploadDeleteSearch(i) == i + 2 <= Len(vsResp) /\ vsResp[i].op = "add_documents" /\ vsResp[i].ok /\ vsResp[i + 1].op = "delete_document" /\ vsResp[i + 1].store = vsResp[i].store /\ vsResp[i + 1].document_id \in BatchDocumentIds(vsResp[i].store, vsResp[i].documents) /\ vsResp[i + 2].op = "search" /\ vsResp[i + 2].store = vsResp[i].store /\ vsResp[i + 2].ok

C16_DeletedNotFoundWithProject ==
    \A i \in 1..MaxVsOps :
        (C16_UploadDeleteSearch(i) /\ vsResp[i].store.project_id # NoneId) =>
            \A j \in 1..Len(vsResp[i + 2].results) :
                vsResp[i + 2].results[j].document_id # vsResp[i + 1].document_id

\* ---------------------------------------------------------------- C17

\* a search returns only rows stored under the searching store's assistant
C17_SearchStep ==
    \A store \in Stores :
        (Len(vsResp') = Len(vsResp) + 1 /\ vsResp'[Len(vsResp')].op = "search" /\ vsResp'[Len(vsResp')].store = store /\ vsResp'[Len(vsResp')].ok) =>
            \A j \in 1..Len(SearchResults(document_embeddings, store, MaxK, 0)) :
                \E r \in document_embeddings :
                    /\ r.id = vsResp'[Len(vsResp')].results[j].id
                    /\ r.assistant_id = store.assistant_id

\* a deletion, a clearing or a metadata update leaves the rows of every
\* other assistant as they were
C17_WriteStep ==
    \A store \in Stores :
        (Len(vsResp') = Len(vsResp) + 1 /\ vsResp'[Len(vsResp')].op \in {"delete_document", "clear_project_documents", "update_metadata"} /\ vsResp'[Len(vsResp')].store = store) =>
            \A r \in document_embeddings :
                r.assistant_id # store.assistant_id => r \in document_embeddings'

\* C17: operations on one scope never read or modify another scope's
\* chunks: search through a store returns only chunks stored under its
\* assistant, and delete_document, clear_project_documents and
\* update_metadata through a store leave every chunk of another assistant
\* unchanged
C17_ScopesIsolated == [][C17_SearchStep /\ C17_WriteStep]_vars

\* the reading half alone
C17_SearchWithinScope == [][C17_SearchStep]_vars

\* the writing half for the two statements written out in the store's code
C17_ProjectWideStep ==
    \A store \in Stores :
        (Len(vsResp') = Len(vsResp) + 1 /\ vsResp'[Len(vsResp')].op \in {"clear_project_documents", "update_metadata"} /\ vsResp'[Len(vsResp')].store = store) =>
            \A r \in document_embeddings :
                r.assistant_id # store.assistant_id => r \in document_embeddings'
C17_ProjectWideWritesIsolated == [][C17_ProjectWideStep]_vars

\* ---------------------------------------------------------------- C18

\* the stored chunks by key, with their content
Chunks(table) == {<<RowKey(r), r.content>> : r \in table}

\* no two rows of the table share (assistant_id, document_id, chunk_index)
NoDuplicateRows(table) == \A r \in table, o \in table : RowKey(r) = RowKey(o) => r = o

\* this step repeats the add_documents call made just before it
C18_SecondCall == Len(vsResp) >= 1 /\ vsResp' = Append(vsResp, vsResp[Len(vsResp)]) /\ vsResp[Len(vsResp)].op = "add_documents" /\ vsResp[Len(vsResp)].ok

C18_SecondCallStep ==
    C18_SecondCall =>
        /\ Chunks(document_embeddings') = Chunks(document_embeddings)
        /\ Cardinality(document_embeddings') = Cardinality(document_embeddings)
        /\ NoDuplicateRows(document_embeddings')

\* C18: add_documents called twice with identical input leaves the same set
\* of chunks, keyed by (assistant, document id, chunk index), with the same
\* content as calling it once, and no duplicate rows, also when document ids
\* and chunk indexes are defaulted
C18_UpsertIdempotent == [][C18_SecondCallStep]_vars

\* a batch with defaulted ids and indexes has been uploaded twice in a row
C18_Witness ==
    /\ Len(vsResp) >= 2
    /\ vsResp[Len(vsResp)] = vsResp[Len(vsResp) - 1]
    /\ vsResp[Len(vsResp)].op = "add_documents"
    /\ vsResp[Len(vsResp)].ok
    /\ vsResp[Len(vsResp)].documents = BatchDefaulted
    /\ Cardinality(document_embeddings) >= Len(BatchDefaulted)

\* ---------------------------------------------------------------- C19

\* the call made by this step is an add_documents
C19_Upsert == Len(vsResp') = Len(vsResp) + 1 /\ vsResp'[Len(vsResp')].op = "add_documents"

\* the rows the batch of this step's call is written as
C19_Rows == InsertData(vsResp'[Len(vsResp')].store, vsResp'[Len(vsResp')].documents)

C19_UpsertStep ==
    C19_Upsert =>
        IF vsResp'[Len(vsResp')].ok
        THEN \A i \in 1..Len(C19_Rows) :
                 \E r \in document_embeddings' :
                     /\ RowKey(r) = RowKey(C19_Rows[i])
                     /\ \E j \in i..Len(C19_Rows) : RowKey(C19_Rows[j]) = RowKey(r) /\ r.content = C19_Rows[j].content
        ELSE document_embeddings' = document_embeddings

\* C19: add_documents is all-or-nothing per call: when it fails (embedding
\* failure, missing assistant id, or a database error on any row of the
\* batch) the table is exactly what it was before the call; when it succeeds
\* every row of the batch is stored (under its key, with its content or that
\* of a later row of the batch with the same key)
C19_AllOrNothing == [][C19_UpsertStep]_vars

\* an upload failed in the database after an earlier upload had stored rows
C19_Witness ==
    /\ Len(vsResp) = 2
    /\ vsResp[1].ok
    /\ vsResp[2].op = "add_documents"
    /\ vsResp[2].error = "DatabaseError"
    /\ Len(vsResp[2].documents) >= 2
    /\ Chunks(document_embeddings) = Chunks(AddDocumentsTable({}, vsResp[1].store, vsResp[1].documents, [kind |-> "none", failAt |-> 0]))
    /\ document_embeddings # {}

\* ---------------------------------------------------------------- C20

\* the rows of the store's assistant whose similarity clears the call's floor
C20_Clearing(call) == {r \in document_embeddings : r.assistant_id = call.store.assistant_id /\ CosineSimilarity(r.content) >= call.threshold}

\* the rows behind the results of a call
C20_Returned(call) == {r \in document_embeddings : \E j \in 1..Len(call.results) : call.results[j].id = r.id}

C20_Contract(call) ==
    /\ call.ok
    /\ Len(call.results) <= call.k
    /\ \A j \in 1..Len(call.results) : call.results[j].score >= call.threshold
    /\ \A i \in 1..Len(call.results), j \in 1..Len(call.results) :
           i < j => \/ call.results[i].score > call.results[j].score
                    \/ /\ call.results[i].score = call.results[j].score
                       /\ call.results[i].chunk_index <= call.results[j].chunk_index
    /\ \A j \in 1..Len(call.results) : \E r \in C20_Clearing(call) : r.id = call.results[j].id /\ r.content = call.results[j].content /\ CosineSimilarity(r.content) = call.results[j].score
    /\ Cardinality(C20_Returned(call)) = Len(call.results)
    /\ Len(call.results) = IF Cardinality(C20_Clearing(call)) < call.k THEN Cardinality(C20_Clearing(call)) ELSE call.k
    /\ \A r \in C20_Returned(call), o \in C20_Clearing(call) \ C20_Returned(call) : RanksBefore(r, o)
    /\ C20_Clearing(call) = {} => call.results = <<>>

C30_Upsert == Len(vsResp') = Len(vsResp) + 1 /\ vsResp'[Len(vsResp')].op = "add_documents" /\ vsResp'[Len(vsResp')].ok

\* the rows this step's batch is written as
C30_Rows == InsertData(vsResp'[Len(vsResp')].store, vsResp'[Len(vsResp')].documents)

C30_UpsertStep ==
    C30_Upsert =>
        \A r \in document_embeddings' :
            (r.assistant_id = vsResp'[Len(vsResp')].store.assistant_id /\ r.document_id \in BatchDocumentIds(vsResp'[Len(vsResp')].store, vsResp'[Len(vsResp')].documents)) =>
                \E i \in 1..Len(C30_Rows) : RowKey(C30_Rows[i]) = RowKey(r)

\* C30: after a successful add_documents of a document, the chunks stored
\* under (assistant, document id) are exactly the chunks supplied in that
\* call: no chunk of an earlier, longer version of the document remains
C30_StoredExactlySupplied == [][C30_UpsertStep]_vars

\* ---------------------------------------------------------------- C24

\* C24: the conversation log is appended to only after generation: a
\* finished send_message request has added either both the user message
\* and the answer or nothing, and a request whose retrieval or generation
\* failed has added nothing
C24_LogBothOrNothing ==
    \A r \in Req :
        /\ req[r].logged > 0 => req[r].generated
        /\ req[r].pc = "done" => (req[r].logged = 0 \/ (req[r].logged = 2 /\ req[r].generated))

C21_ContextUsedIffRetrieved ==
    \A i \in 1..Len(ragResp) : ragResp[i].pc = "returned" =>
        (ragResp[i].result.context_used <=> ragResp[i].relevant_docs # <<>>)

\* C23: a query whose search step failed has attempted the search exactly
\* twice before the failure reached the caller, and the generator was never
\* called
C23_SearchFailed(i) == ragResp[i].pc = "raised" /\ ragResp[i].generate_attempts = 0
C23_SearchAttemptedTwice ==
    \A i \in 1..Len(ragResp) : C23_SearchFailed(i) => ragResp[i].search_attempts = 2

\* C22: whenever a listed injection phrasing occurs in the raw message, the
\* output of sanitize_message holds [FILTERED] and, once unescaped, no
\* occurrence of any listed phrasing; the text stored and the text handed to
\* the RAG service are the sanitized output
C22_Occurs(message) == \E n \in 1..Len(injection_patterns), pos \in 1..Len(message) : MatchEnd(injection_patterns[n], 1, message, pos) # 0
C22_Unescape(message) == [i \in 1..Len(message) |-> CASE message[i] = "&lt;" -> "<" [] message[i] = "&gt;" -> ">" [] OTHER -> message[i]]
C22_Sanitized(i) == msgResp[i].pc = "done"
C22_InjectionFiltered ==
    \A i \in 1..Len(msgResp) : C22_Sanitized(i) =>
        /\ C22_Occurs(msgResp[i].message) => \E j \in 1..Len(msgResp[i].sanitized_message) : msgResp[i].sanitized_message[j] = "[FILTERED]"
        /\ ~C22_Occurs(C22_Unescape(msgResp[i].sanitized_message))
        /\ msgResp[i].stored => msgResp[i].content = msgResp[i].sanitized_message
        /\ msgResp[i].queried => msgResp[i].query = msgResp[i].sanitized_message

\* C22 without the angle-bracket phrasings: a phrasing that holds neither
\* "<" nor ">" is always replaced
C22_PlainOccurs(message) == \E n \in {1, 2, 3, 4, 5, 6, 9, 10, 11}, pos \in 1..Len(message) : MatchEnd(injection_patterns[n], 1, message, pos) # 0
C22_PlainInjectionFiltered ==
    \A i \in 1..Len(msgResp) : C22_Sanitized(i) =>
        /\ C22_PlainOccurs(msgResp[i].message) => \E j \in 1..Len(msgResp[i].sanitized_message) : msgResp[i].sanitized_message[j] = "[FILTERED]"
        /\ ~C22_PlainOccurs(msgResp[i].sanitized_message)

\* C25: for every request to an endpoint listed in api_key_endpoints with
\* its method (the health check, which is also a bypass prefix, aside),
\* should_check_api_key returned TRUE, and when the request carried an API
\* key dispatch validated it
C25_Dispatched == mwResp # <<>> /\ mwResp[1].pc = "done"
C25_ListedEndpoint == Listed(mwResp[1].path, mwResp[1].method) /\ mwResp[1].path # PathHealth
C25_ListedEndpointsChecked ==
    (C25_Dispatched /\ C25_ListedEndpoint) =>
        /\ mwResp[1].checked
        /\ mwResp[1].has_key => mwResp[1].outcome.validated

\* C25, the other direction: should_check_api_key returns FALSE for every
\* path under a bypass prefix and for every endpoint that is not listed
C25_BypassedNotChecked ==
    C25_Dispatched => (((\E b \in bypass_endpoints : StartsWith(mwResp[1].path, b)) \/ ~Listed(mwResp[1].path, mwResp[1].method)) => ~mwResp[1].checked)

\* C26: a request that carries an API key on a listed endpoint has exactly
\* one usage record if and only if the key is valid, active and unexpired,
\* not rate-limited and permitted; a request answered 401, 429 or 403 by the
\* middleware was not forwarded and not recorded
C26_Accepted == GetApiKeyByHash(mwResp[1].row) /\ ~mwResp[1].is_rate_limited /\ CheckEndpointPermission(mwResp[1].path, mwResp[1].method, mwResp[1].permissions)
C26_RecordedIffAccepted ==
    (C25_Dispatched /\ C25_ListedEndpoint /\ mwResp[1].has_key) =>
        /\ mwResp[1].outcome.recorded = 1 <=> C26_Accepted
        /\ mwResp[1].outcome.recorded <= 1
        /\ ~C26_Accepted => ~mwResp[1].outcome.forwarded

\* C26 for the try block alone (lines 118-197), whatever should_check_api_key
\* says: a checked request with a key is recorded once exactly when accepted
C26_TryBlockRecordsIffAccepted ==
    \A row \in KeyRows, is_rate_limited \in BOOLEAN, permitted \in BOOLEAN, downstream \in Downstreams, record_ok \in BOOLEAN :
        DispatchOutcome(TRUE, TRUE, row, is_rate_limited, permitted, downstream, record_ok).recorded = 1 <=> (GetApiKeyByHash(row) /\ ~is_rate_limited /\ permitted)

\* C26, the rejections of the try block: 401, 429 and 403 are neither
\* forwarded nor recorded
C26_TryBlockRejections ==
    \A row \in KeyRows, is_rate_limited \in BOOLEAN, permitted \in BOOLEAN, downstream \in Downstreams, record_ok \in BOOLEAN :
        LET o == DispatchOutcome(TRUE, TRUE, row, is_rate_limited, permitted, downstream, record_ok) IN ~(GetApiKeyByHash(row) /\ ~is_rate_limited /\ permitted) => (o.status \in {"401", "429", "403"} /\ ~o.forwarded /\ o.recorded = 0)

\* C27: a call made during the LOCKOUT_DURATION_MINUTES after the
\* MAX_FAILED_ATTEMPTS-th failed call was answered 423 without the password
\* being checked, whatever the password; any other call, the first one after
\* the lockout period included, was decided by the account and the password
C27_Expected(u) == IF u \in RegisteredUsernames /\ authResp[u].password_ok THEN "ok" ELSE "failed"
C27_LockedOutThenNormal ==
    \A u \in Usernames : authResp[u].last # "none" =>
        IF authResp[u].during_lock
        THEN authResp[u].last = "423" /\ ~authResp[u].checked
        ELSE authResp[u].last = C27_Expected(u) /\ (authResp[u].checked <=> u \in RegisteredUsernames)
C27_Witness == authResp["alice"].during_lock /\ authResp["alice"].password_ok /\ authResp["alice"].last = "423" /\ now = authResp["alice"].lock_from + LOCKOUT_DURATION_MINUTES - 1
C27_WitnessAfter == authResp["alice"].after_expiry /\ authResp["alice"].last = "ok"

\* C28: every entry of the tracker has attempts <= MAX_FAILED_ATTEMPTS and a
\* lock exactly when attempts = MAX_FAILED_ATTEMPTS; after a successful
\* login the entry is reset; after the first call that follows an expired
\* lock the entry counts only that call
C28_TrackerInvariant ==
    \A u \in Usernames : failed_login_attempts[u].present =>
        /\ failed_login_attempts[u].attempts <= MAX_FAILED_ATTEMPTS
        /\ failed_login_attempts[u].locked <=> failed_login_attempts[u].attempts = MAX_FAILED_ATTEMPTS
        /\ authResp[u].last = "ok" => failed_login_attempts[u] = ResetEntry
        /\ (authResp[u].after_expiry /\ authResp[u].last = "failed") => (failed_login_attempts[u].attempts = 1 /\ ~failed_login_attempts[u].locked)
        /\ (authResp[u].after_expiry /\ authResp[u].last = "ok") => failed_login_attempts[u].attempts = 0
C28_Witness == authResp["alice"].after_expiry /\ authResp["alice"].last = "failed" /\ failed_login_attempts["alice"].attempts = 1 /\ failed_login_attempts["bob"].locked

\* C29: the number of users registered under the admin code, by its admin
\* code or by its user code, never exceeds its max_users
C29_UsersWithinLimit == users <= admin_codes.max_users

\* C29 for requests served one after the other: the limit is exceeded only
\* when some request passed its check while another was in flight
C29_SerialUsersWithinLimit == users > admin_codes.max_users => \E w \in Req : regReq[w].overlapped

\* C29 for the counter: current_users is the number of users registered
C29_CounterCountsUsers == (\A w \in Req : regReq[w].pc # "checked") => admin_codes.current_users = users

====
